---- MODULE Spec2Model ----
(***************************************************************************)
(* A model of fastar.  Its parts run in specifications of their own:       *)
(*   Spec, FairSpec  the parallel ordered-download engine,                 *)
(*                   GetDownloadStream and writePartial (downloader.go),   *)
(*                   with the chunk reader they drive;                     *)
(*   HttpSpec        the HTTP adapter's probe and its retrying fetch       *)
(*                   (http_downloader.go);                                 *)
(*   RangeSpec       GenerateRangeString (downloader.go);                  *)
(*   TarSpec         ExtractTar with its writer goroutines and hardLink;   *)
(*   MagicSpec       getMagicNumber and the reader of the stream it        *)
(*                   returns (fastar.go).                                  *)
(* The download engine has its own variables; the part another             *)
(* specification runs keeps its variables in the fields of aux.            *)
(* One byte of the object is identified by its offset: the byte at offset  *)
(* p has the value p + 1, a fresh buffer holds zeros.                      *)
(***************************************************************************)
EXTENDS Integers, Sequences, FiniteSets, TLC

\* ---------------------------------------------------------------- bounds
MaxSize == 3
MaxChunk == 3
MaxWorkers == 2
MaxRetry == 2

\* Largest attempt budget: the tests set opts.RetryCount = math.MaxInt64; the
\* model uses the largest integer TLC represents, which no attempt number reaches.
MaxInt == 2147483647

\* Failures (read errors, too-slow verdicts) the environment may inject into one
\* download: one more than the largest finite budget, so that EIO is reachable.
MaxFails == MaxRetry + 1

\* Largest opts.RetryCount in the behaviours explored under fair scheduling.
MaxFairRetry == 1

\* Largest opts.RetryCount of the HTTP adapter's retrying fetch.
MaxAttempts == 3

\* GenerateRangeString: longest list of ranges and largest offset.
MaxRanges == 2
MaxOffset == 100

\* ExtractTar: most entries of an archive, most write workers, largest
\* strip-components.
MaxEntries == 3
MaxWriters == 2
MaxStrip == 2

Workers == 0 .. (MaxWorkers - 1)

\* How the process may have ended: os.Exit(int(unix.EIO)), a Go panic, log.Fatal.
EIO == "EIO"

\* os.Exit(int(unix.ENOENT)) and os.Exit(int(unix.EBUSY)).
ENOENT == "ENOENT"
EBUSY == "EBUSY"

VARIABLES
    size,               \* total file size, as GetFileInfo reports it
    chunkSize,          \* opts.ChunkSize handed to GetDownloadStream
    numWorkers,         \* number of download workers
    supportsRange,      \* GetFileInfo: RANGE support
    supportsMultipart,  \* GetFileInfo: multipart RANGE support
    RetryCount,         \* opts.RetryCount
    phase,              \* position of GetDownloadStream: "init", "full", "spawned", "parallel"
    chans,              \* chans[i]: number of tokens in worker i's channel (capacity 1)
    out,                \* bytes the consumer has received, in order
    outBy,              \* outBy[i]: the worker that wrote out[i] (history)
    closeCount,         \* number of writer.Close() calls
    closedBy,           \* chunk start of the worker at the moment it closed the pipe (history)
    fullEOF,            \* full-object path: the consumer has read to EOF
    exit,               \* "none" while running; EIO, "panic" or "fatal" once the process died
    pc,                 \* pc[w]: position of worker w's main goroutine
    CurChunkStart,      \* reader.CurChunkStart of worker w
    attemptNumber,      \* attemptNumber of worker w
    totalRead,          \* totalRead of worker w's current chunk
    totalWritten,       \* totalWritten of worker w's current chunk
    buf,                \* buf of worker w (length chunkSize)
    moreToWrite,        \* tokens in the current chunk's moreToWrite channel (capacity 1)
    rpc,                \* position of the reader goroutine of worker w's current chunk
    err,                \* err of worker w: the last Read returned an error
    chunkTooSlowSoFar,  \* the too-slow verdict the clock gives after worker w's last Read
    stream,             \* worker w's underlying stream: [open, pos]
    old,                \* reader goroutines of earlier chunks of worker w that have not returned
    requested,          \* worker w has issued a range or multipart request (history)
    chunkFails,         \* failures handled in worker w's current chunk (history)
    worstFails,         \* largest number of failures handled in any one chunk so far (history)
    stripeFails,        \* failures handled in worker w's whole stripe so far (history)
    causes              \* what failed in worker w's current chunk: "none", "err", "slow", "mixed" (history)

\* ---- the parts other than the download engine
VARIABLES
    aux                 \* the variables of the part that the specification runs, as a record

\* In a specification that runs the download engine.
AuxOff == [part |-> "off"]

auxVars == <<aux>>

\* ---- the HTTP adapter (http_downloader.go): the fields of aux under HttpSpec
optsSkipHead == aux.optsSkipHead            \* opts.SkipHead
optsContentLength == aux.optsContentLength  \* opts.ContentLength
optsAcceptRanges == aux.optsAcceptRanges    \* opts.AcceptRanges
optsChunkSize == aux.optsChunkSize          \* opts.ChunkSize
optsRetryCount == aux.optsRetryCount        \* opts.RetryCount
\* position of GetFileInfo: "start", "retry", "returned", "done"
hpc == aux.hpc
\* calls of the retried function made by retry.Do so far
attempts == aux.attempts
\* throttled of retryHttpRequest
throttled == aux.throttled
\* resp of retryHttpRequest: NoResponse or [StatusCode, ContentLength, AcceptRanges]
resp == aux.resp
\* "none" while running; ENOENT, EBUSY or "fatal" once the process died
hexit == aux.hexit
\* what GetFileInfo returned: <<>> before it returns, then <<size, range, multipart>>
fileInfo == aux.fileInfo
\* outcome of every client.Do of the call, in order (history)
tried == aux.tried

\* ---- GenerateRangeString (downloader.go): the fields of aux under RangeSpec
\* the argument: a sequence of pairs <<start, end>>
ranges == aux.ranges
\* the loop variable i
rangeIdx == aux.i
\* rangeString, as the sequence of its characters
rangeString == aux.rangeString
\* the function has returned rangeString
rangeReturned == aux.returned

\* ---- ExtractTar: the fields of aux under TarSpec
writeWorkers == aux.writeWorkers        \* *writeWorkers
stripComponents == aux.stripComponents  \* *stripComponents
overwrite == aux.overwrite              \* *overwrite
\* the entries tarReader.Next() yields: [Typeflag, Name, Linkname]
archive == aux.archive
\* entries read so far
entryIdx == aux.idx
\* position of ExtractTar: "next", "acquire", "wgWait", "link", "wait", "returned"
tpc == aux.tpc
\* path and newPath of the entry at hand
path == aux.path
newPath == aux.newPath
\* tokens in the channel openFileTokens
openFileTokens == aux.openFileTokens
\* counter of the WaitGroup wg
wg == aux.wg
\* writers[i]: position of the writeFileAsync goroutine of entry i, "none" if none
writers == aux.writers
\* the paths that exist under the output directory
fs == aux.fs
\* the hard links created: [path, source, sourceFull, busy] (history)
linked == aux.linked
\* inode[p]: the file that the path p of fs names, identified by the entry whose
\* writer goroutine created it
inode == aux.inode
\* contents[n]: the entry whose buffer was last copied into the file n, 0 for
\* an empty file
contents == aux.contents
\* files[i]: the file that writer goroutine i has opened, 0 before it opens one
files == aux.files
\* the entries skipped by the empty-name test (history)
skipped == aux.skipped
\* "none" while running; "panic" or "fatal" once the process died
texit == aux.texit

cfgVars == <<size, chunkSize, numWorkers, supportsRange, supportsMultipart, RetryCount>>
pipeVars == <<out, outBy, closeCount, closedBy>>
mainVars == <<pc, CurChunkStart, totalWritten>>
readVars == <<attemptNumber, totalRead, buf, rpc, err, chunkTooSlowSoFar, stream, requested,
              chunkFails, worstFails, stripeFails, causes>>
engineVars == <<cfgVars, phase, chans, pipeVars, fullEOF, exit, mainVars, readVars,
                moreToWrite, old>>
vars == <<engineVars, auxVars>>

\* ------------------------------------------------------------ pure helpers
Min(a, b) == IF a < b THEN a ELSE b
Max(a, b) == IF a > b THEN a ELSE b

\* The byte of the object at offset p.
Data(p) == p + 1

\* The whole object.
Object == [i \in 1 .. size |-> Data(i - 1)]

\* (mutant) every chunk counts as finished at once.
ChunkFinished_Always(curChunkStart, curProgress, fileSize, cSize) == TRUE

\* (mutant) only a full buffer finishes a chunk, the end of the file does not.
ChunkFinished_FullOnly(curChunkStart, curProgress, fileSize, cSize) == curProgress = cSize

ChunkFinished(curChunkStart, curProgress, fileSize, cSize) ==
    curProgress = cSize \/ curChunkStart + curProgress >= fileSize

\* Go's b[lo:hi] of a buffer kept as a 1-based sequence.
Slice(b, lo, hi) == [i \in 1 .. (hi - lo) |-> b[lo + i]]

\* (mutant) the worker hands the token back to its own channel.
NextChan_Self(i) == i

\* The channel the worker hands the token to.
NextChan(i) == (i + 1) % numWorkers

\* (mutant) an object of exactly one chunk also takes the full-object stream.
UseFullStream_Inclusive == ~supportsRange \/ size <= chunkSize

\* GetDownloadStream falls back to the single full-object stream.
UseFullStream == ~supportsRange \/ size < chunkSize

\* (mutant) the test looks at the worker's own next chunk, not the object's.
MoreChunksAfter_OwnStripe(w) == CurChunkStart[w] + numWorkers * chunkSize < size

\* (mutant) the token is passed on after every chunk.
MoreChunksAfter_Always(w) == TRUE

\* The test deciding between passing the token and closing the pipe.
MoreChunksAfter(w) == CurChunkStart[w] + chunkSize < size

\* ------------------------------------------------------------ chunk reader
\* Reader.UseMultipart
UseMultipart == supportsMultipart

\* (mutant) the last chunk is as long as any other.
ChunkEnd_Unbounded(cs) == cs + chunkSize

\* End of the chunk that starts at cs.
ChunkEnd(cs) == Min(cs + chunkSize, size)

\* Reader.RequestChunk: ensure a stream exists positioned in the current chunk.
RequestChunk(s, cs) ==
    IF s.open /\ cs <= s.pos /\ s.pos < ChunkEnd(cs) THEN s
    ELSE [open |-> TRUE, pos |-> cs]

\* Reader.Reset: abort the current stream and re-request from an offset.
Reset(s, from) == [open |-> TRUE, pos |-> from]

\* (mutant) the retry restarts the chunk from its first byte.
ResetOffset_ChunkStart(w) == CurChunkStart[w]

\* The offset writePartial resets the reader to after a failure.
ResetOffset(w) == CurChunkStart[w] + totalRead[w]

\* Reader.Close
Close(s) == [s EXCEPT !.open = FALSE]

\* ------------------------------------------------------------------- Init
\* var resp *http.Response before any attempt has succeeded (nil).
NoResponse == [StatusCode |-> 0, ContentLength |-> 0, AcceptRanges |-> ""]

\* The download engine before GetDownloadStream has done anything.
EngineStart ==
    /\ phase = "init"
    /\ chans = [w \in Workers |-> 0]
    /\ out = <<>>
    /\ outBy = <<>>
    /\ closeCount = 0
    /\ closedBy = <<>>
    /\ fullEOF = FALSE
    /\ exit = "none"
    /\ pc = [w \in Workers |-> "none"]
    /\ CurChunkStart = [w \in Workers |-> 0]
    /\ attemptNumber = [w \in Workers |-> 0]
    /\ totalRead = [w \in Workers |-> 0]
    /\ totalWritten = [w \in Workers |-> 0]
    /\ buf = [w \in Workers |-> <<>>]
    /\ moreToWrite = [w \in Workers |-> 0]
    /\ rpc = [w \in Workers |-> "none"]
    /\ err = [w \in Workers |-> FALSE]
    /\ chunkTooSlowSoFar = [w \in Workers |-> FALSE]
    /\ stream = [w \in Workers |-> [open |-> FALSE, pos |-> 0]]
    /\ old = [w \in Workers |-> <<>>]
    /\ requested = [w \in Workers |-> FALSE]
    /\ chunkFails = [w \in Workers |-> 0]
    /\ worstFails = 0
    /\ stripeFails = [w \in Workers |-> 0]
    /\ causes = [w \in Workers |-> "none"]

\* The download engine in a specification that does not run it.
EngineOff ==
    /\ size = 0
    /\ chunkSize = 0
    /\ numWorkers = 1
    /\ supportsRange = FALSE
    /\ supportsMultipart = FALSE
    /\ RetryCount = 0
    /\ EngineStart

Init ==
    /\ size \in 0 .. MaxSize
    /\ chunkSize \in 0 .. MaxChunk
    /\ numWorkers \in 1 .. MaxWorkers
    /\ supportsRange \in BOOLEAN
    /\ supportsMultipart \in BOOLEAN
    /\ RetryCount \in (0 .. MaxRetry) \cup {MaxInt}
    /\ EngineStart
    /\ aux = AuxOff

Running == exit = "none"

Live(w) == Running /\ w < numWorkers

\* -------------------------------------------------------- GetDownloadStream
\* The probe and what follows it: either the adapter's full-object stream is
\* returned, or the channels and the pipe are made and the workers started.
GetDownloadStream ==
    /\ Running
    /\ phase = "init"
    /\ IF UseFullStream
       THEN /\ phase' = "full"
            /\ UNCHANGED pc
       ELSE /\ phase' = "spawned"
            /\ pc' = [w \in Workers |-> IF w < numWorkers THEN "entry" ELSE "none"]
    /\ UNCHANGED <<auxVars, cfgVars, chans, pipeVars, fullEOF, exit, CurChunkStart, totalWritten,
                   readVars, moreToWrite, old>>

\* (mutant) no token is sent.
Primed_None(c) == c

\* (mutant) every worker's channel is primed.
Primed_All(c) == [w \in Workers |-> 1]

\* The channels after the initial token was sent to worker 0.
Primed(c) == [c EXCEPT ![0] = 1]

\* chans[0] <- true
Prime ==
    /\ Running
    /\ phase = "spawned"
    /\ chans[0] = 0
    /\ chans' = Primed(chans)
    /\ phase' = "parallel"
    /\ UNCHANGED <<auxVars, cfgVars, pipeVars, fullEOF, exit, mainVars, readVars, moreToWrite, old>>

\* The consumer reads the stream of downloader.Get() (full-object path).
ConsumeFull ==
    /\ Running
    /\ phase = "full"
    /\ ~fullEOF
    /\ IF Len(out) = size
       THEN /\ fullEOF' = TRUE
            /\ UNCHANGED out
       ELSE /\ \E n \in 1 .. (size - Len(out)) :
                out' = out \o [i \in 1 .. n |-> Data(Len(out) + i - 1)]
            /\ UNCHANGED fullEOF
    /\ UNCHANGED <<auxVars, cfgVars, phase, chans, outBy, closeCount, closedBy, exit, mainVars,
                   readVars, moreToWrite, old>>

\* ------------------------------------------------------------- writePartial
\* Entry of the worker: workerNum = start / chunkSize, NewReader, attemptNumber,
\* buf.  A zero chunk size makes the division panic.
WorkerEntry(w) ==
    /\ Live(w)
    /\ pc[w] = "entry"
    /\ IF chunkSize = 0
       THEN /\ exit' = "panic"
            /\ UNCHANGED <<pc, CurChunkStart, attemptNumber, buf>>
       ELSE /\ pc' = [pc EXCEPT ![w] = "loop"]
            /\ CurChunkStart' = [CurChunkStart EXCEPT ![w] = w * chunkSize]
            /\ attemptNumber' = [attemptNumber EXCEPT ![w] = 1]
            /\ buf' = [buf EXCEPT ![w] = [i \in 1 .. chunkSize |-> 0]]
            /\ UNCHANGED exit
    /\ UNCHANGED <<auxVars, cfgVars, phase, chans, pipeVars, fullEOF, totalWritten, totalRead, rpc,
                   err, chunkTooSlowSoFar, stream, requested, chunkFails, worstFails, stripeFails, causes,
                   moreToWrite, old>>

\* A reader goroutine of an earlier chunk that has not returned yet keeps its
\* own totalRead and its own moreToWrite channel.
Lingering(w) ==
    IF rpc[w] \in {"check", "post"}
    THEN <<[rpc |-> rpc[w], totalRead |-> totalRead[w], sig |-> moreToWrite[w],
            chunk |-> CurChunkStart[w] - numWorkers * chunkSize]>>
    ELSE <<>>

\* (mutant) attemptNumber is carried over from chunk to chunk in every mode.
AttemptAtChunkStart_Carry(w) == attemptNumber[w]

\* (mutant) attemptNumber is reset at every chunk in every mode.
AttemptAtChunkStart_Reset(w) == 1

\* if !reader.UseMultipart() { attemptNumber = 1 }
AttemptAtChunkStart(w) == IF ~UseMultipart THEN 1 ELSE attemptNumber[w]

\* Head of the chunk loop: the loop test, RequestChunk, the attemptNumber reset,
\* the chunk's fresh counters and channel, and the start of the reader goroutine.
LoopHead(w) ==
    /\ Live(w)
    /\ pc[w] = "loop"
    /\ IF CurChunkStart[w] < size
       THEN /\ stream' = [stream EXCEPT ![w] = RequestChunk(@, CurChunkStart[w])]
            /\ requested' = [requested EXCEPT ![w] = TRUE]
            /\ attemptNumber' = [attemptNumber EXCEPT ![w] = AttemptAtChunkStart(w)]
            /\ totalRead' = [totalRead EXCEPT ![w] = 0]
            /\ totalWritten' = [totalWritten EXCEPT ![w] = 0]
            /\ moreToWrite' = [moreToWrite EXCEPT ![w] = 0]
            /\ old' = [old EXCEPT ![w] = @ \o Lingering(w)]
            /\ rpc' = [rpc EXCEPT ![w] = "top"]
            /\ chunkFails' = [chunkFails EXCEPT ![w] = 0]
            /\ causes' = [causes EXCEPT ![w] = "none"]
            /\ pc' = [pc EXCEPT ![w] = "waitToken"]
       ELSE /\ pc' = [pc EXCEPT ![w] = "done"]
            /\ UNCHANGED <<stream, requested, attemptNumber, totalRead, totalWritten,
                           moreToWrite, old, rpc, chunkFails, causes>>
    /\ UNCHANGED <<auxVars, cfgVars, phase, chans, pipeVars, fullEOF, exit, CurChunkStart, buf, err, chunkTooSlowSoFar,
                   worstFails, stripeFails>>

\* ------------------------------------------- reader goroutine of a chunk
\* if totalRead > totalWritten && len(moreToWrite) == 0 { moreToWrite <- true }
ReaderTop(w) ==
    /\ Live(w)
    /\ rpc[w] = "top"
    /\ moreToWrite' = [moreToWrite EXCEPT
                         ![w] = IF totalRead[w] > totalWritten[w] /\ @ = 0 THEN 1 ELSE @]
    /\ rpc' = [rpc EXCEPT ![w] = "read"]
    /\ UNCHANGED <<auxVars, cfgVars, phase, chans, pipeVars, fullEOF, exit, mainVars, attemptNumber,
                   totalRead, buf, err, chunkTooSlowSoFar, stream, requested, chunkFails, worstFails,
                   stripeFails, causes, old>>

\* Failures handled so far by the workers 0 .. n - 1.
RECURSIVE FailsBelow(_)
FailsBelow(n) == IF n = 0 THEN 0 ELSE stripeFails[n - 1] + FailsBelow(n - 1)

TotalFails == FailsBelow(MaxWorkers)

\* What Read(buf[totalRead:]) may return: n bytes and an error or none.  A closed
\* stream and a stream at its end return no byte and an error; otherwise at least
\* one byte or an error, the error at the environment's choice.
ReadOutcomes(w) ==
    LET room  == Len(buf[w]) - totalRead[w]
        avail == ChunkEnd(CurChunkStart[w]) - stream[w].pos
        most  == Min(room, avail)
    IN  IF ~stream[w].open \/ most <= 0
        THEN {<<0, TRUE>>}
        ELSE {<<n, FALSE>> : n \in 1 .. most}
               \cup (IF TotalFails < MaxFails
                     THEN {<<n, TRUE>> : n \in 0 .. most}
                     ELSE {})

\* var chunkTooSlowSoFar = attemptElapsedMilli > ... && ... < minSpeedBytesPerMillisecond
\* The verdict depends on the clock alone, which the Read that just returned has
\* advanced: any outcome, within the failures the environment may inject.  It is
\* computed only for a chunk that the Read left unfinished, and a Read that also
\* failed is handled as a read error whatever the verdict.
SlowVerdicts(w, progress, readFailed) ==
    IF /\ TotalFails < MaxFails
       /\ ~readFailed
       /\ ~ChunkFinished(CurChunkStart[w], progress, size, chunkSize)
    THEN BOOLEAN
    ELSE {FALSE}

\* read, err = reader.Read(buf[totalRead:]); totalRead += int64(read)
ReaderRead(w) ==
    /\ Live(w)
    /\ rpc[w] = "read"
    /\ \E o \in ReadOutcomes(w) :
          /\ buf' = [buf EXCEPT ![w] =
                       [i \in 1 .. Len(@) |->
                          IF totalRead[w] < i /\ i <= totalRead[w] + o[1]
                          THEN Data(stream[w].pos + (i - totalRead[w] - 1))
                          ELSE @[i]]]
          /\ totalRead' = [totalRead EXCEPT ![w] = @ + o[1]]
          /\ stream' = [stream EXCEPT ![w].pos = @ + o[1]]
          /\ err' = [err EXCEPT ![w] = o[2]]
          /\ \E v \in SlowVerdicts(w, totalRead[w] + o[1], o[2]) :
                chunkTooSlowSoFar' = [chunkTooSlowSoFar EXCEPT ![w] = v]
    /\ rpc' = [rpc EXCEPT ![w] = "check"]
    /\ UNCHANGED <<auxVars, cfgVars, phase, chans, pipeVars, fullEOF, exit, mainVars, attemptNumber,
                   requested, chunkFails, worstFails, stripeFails, causes, moreToWrite, old>>

\* (mutant) the worker gives up one attempt early.
Exhausted_Inclusive(w) == attemptNumber[w] >= RetryCount

\* if attemptNumber > opts.RetryCount
Exhausted(w) == attemptNumber[w] > RetryCount

\* (mutant) a too-slow verdict is ignored.
NeedsRetry_ErrorOnly(tooSlow, readFailed) == readFailed

\* if chunkTooSlowSoFar || err != nil
NeedsRetry(tooSlow, readFailed) == tooSlow \/ readFailed

\* After a Read: the ChunkFinished test with reader.Close() on a finished chunk
\* and, on an unfinished chunk, the handling of a read error or a too-slow
\* verdict.  Neither err nor the verdict is read again before the next Read sets
\* them: they are cleared.
ReaderCheck(w) ==
    /\ Live(w)
    /\ rpc[w] = "check"
    /\ err' = [err EXCEPT ![w] = FALSE]
    /\ chunkTooSlowSoFar' = [chunkTooSlowSoFar EXCEPT ![w] = FALSE]
    /\ IF ChunkFinished(CurChunkStart[w], totalRead[w], size, chunkSize)
       THEN /\ stream' = [stream EXCEPT ![w] = Close(@)]
            /\ rpc' = [rpc EXCEPT ![w] = "post"]
            /\ UNCHANGED <<exit, requested, attemptNumber, chunkFails, worstFails,
                           stripeFails, causes>>
       ELSE   IF NeedsRetry(chunkTooSlowSoFar[w], err[w])
              THEN /\ chunkFails' = [chunkFails EXCEPT ![w] = @ + 1]
                   /\ worstFails' = Max(worstFails, chunkFails[w] + 1)
                   /\ stripeFails' = [stripeFails EXCEPT ![w] = @ + 1]
                   /\ causes' = [causes EXCEPT
                                   ![w] = LET c == IF err[w] THEN "err" ELSE "slow"
                                          IN  IF @ \in {"none", c} THEN c ELSE "mixed"]
                   /\ IF Exhausted(w)
                      THEN /\ exit' = EIO
                           /\ UNCHANGED <<stream, requested, attemptNumber, rpc>>
                      ELSE /\ stream' = [stream EXCEPT
                                           ![w] = RequestChunk(Reset(@, ResetOffset(w)),
                                                               CurChunkStart[w])]
                           /\ requested' = [requested EXCEPT ![w] = TRUE]
                           /\ attemptNumber' = [attemptNumber EXCEPT ![w] = @ + 1]
                           /\ rpc' = [rpc EXCEPT ![w] = "top"]
                           /\ UNCHANGED exit
              ELSE /\ rpc' = [rpc EXCEPT ![w] = "top"]
                   /\ UNCHANGED <<exit, stream, requested, attemptNumber, chunkFails,
                                  worstFails, stripeFails, causes>>
    /\ UNCHANGED <<auxVars, cfgVars, phase, chans, pipeVars, fullEOF, mainVars, totalRead, buf,
                   moreToWrite, old>>

\* The final moreToWrite <- true: a send on a channel of capacity one.
ReaderPost(w) ==
    /\ Live(w)
    /\ rpc[w] = "post"
    /\ moreToWrite[w] = 0
    /\ moreToWrite' = [moreToWrite EXCEPT ![w] = 1]
    /\ rpc' = [rpc EXCEPT ![w] = "done"]
    /\ UNCHANGED <<auxVars, cfgVars, phase, chans, pipeVars, fullEOF, exit, mainVars, attemptNumber,
                   totalRead, buf, err, chunkTooSlowSoFar, stream, requested, chunkFails, worstFails,
                   stripeFails, causes, old>>

\* ------------------------- reader goroutines of earlier chunks, still running
\* The ChunkFinished test of a reader whose worker has moved on: it reads the
\* reader's CurChunkStart as it is now, and its reader.Close() closes whatever
\* stream the worker's reader holds now.
OldCheck(w, i) ==
    /\ Live(w)
    /\ i \in 1 .. Len(old[w])
    /\ old[w][i].rpc = "check"
    /\ ChunkFinished(CurChunkStart[w], old[w][i].totalRead, size, chunkSize)
    /\ stream' = [stream EXCEPT ![w] = Close(@)]
    /\ old' = [old EXCEPT ![w][i].rpc = "post"]
    /\ UNCHANGED <<auxVars, cfgVars, phase, chans, pipeVars, fullEOF, exit, mainVars, attemptNumber,
                   totalRead, buf, rpc, err, chunkTooSlowSoFar, requested, chunkFails, worstFails, stripeFails,
                   causes, moreToWrite>>

\* Its final send goes to its own chunk's channel, which nobody receives from
\* any more; the goroutine returns if the slot is free.
OldPost(w, i) ==
    /\ Live(w)
    /\ i \in 1 .. Len(old[w])
    /\ old[w][i].rpc = "post"
    /\ old[w][i].sig = 0
    /\ old' = [old EXCEPT ![w] = SubSeq(@, 1, i - 1) \o SubSeq(@, i + 1, Len(@))]
    /\ UNCHANGED <<auxVars, cfgVars, phase, chans, pipeVars, fullEOF, exit, mainVars, readVars,
                   moreToWrite>>

\* ------------------------------------------------ writer side of the worker
\* The worker is between receiving its token and handing it off or closing.
HoldsToken(w) == pc[w] \in {"wloop", "waitSig", "partial", "handoff"}

\* <-curChan
WaitToken(w) ==
    /\ Live(w)
    /\ pc[w] = "waitToken"
    /\ chans[w] > 0
    /\ chans' = [chans EXCEPT ![w] = @ - 1]
    /\ pc' = [pc EXCEPT ![w] = "wloop"]
    /\ UNCHANGED <<auxVars, cfgVars, phase, pipeVars, fullEOF, exit, CurChunkStart, totalWritten,
                   readVars, moreToWrite, old>>

\* (mutant) the write starts at the head of the buffer again.
Pending_FromStart(w) == Slice(buf[w], 0, totalRead[w])

\* buf[totalWritten:totalRead]
Pending(w) == Slice(buf[w], totalWritten[w], totalRead[w])

\* A write of buf[totalWritten:totalRead] to the pipe; the pipe is synchronous, so
\* the write returns when the consumer has taken the bytes.  A write to a closed
\* pipe fails and the worker calls log.Fatal.
PipeWrite(w) ==
    IF closeCount > 0
    THEN /\ exit' = "fatal"
         /\ UNCHANGED <<out, outBy, totalWritten>>
    ELSE /\ out' = out \o Pending(w)
         /\ outBy' = outBy \o [i \in 1 .. Len(Pending(w)) |-> w]
         /\ totalWritten' = [totalWritten EXCEPT ![w] = totalRead[w]]
         /\ UNCHANGED exit

\* for !ChunkFinished(.., totalWritten, ..) { if ChunkFinished(.., totalRead, ..) { io.Copy } else ..
WriteLoop(w) ==
    /\ Live(w)
    /\ pc[w] = "wloop"
    /\ IF ChunkFinished(CurChunkStart[w], totalWritten[w], size, chunkSize)
       THEN /\ pc' = [pc EXCEPT ![w] = "handoff"]
            /\ UNCHANGED <<out, outBy, totalWritten, exit>>
       ELSE IF ChunkFinished(CurChunkStart[w], totalRead[w], size, chunkSize)
            THEN /\ PipeWrite(w)
                 /\ UNCHANGED pc
            ELSE /\ pc' = [pc EXCEPT ![w] = "waitSig"]
                 /\ UNCHANGED <<out, outBy, totalWritten, exit>>
    /\ UNCHANGED <<auxVars, cfgVars, phase, chans, closeCount, closedBy, fullEOF, CurChunkStart,
                   readVars, moreToWrite, old>>

\* <-moreToWrite
WaitSignal(w) ==
    /\ Live(w)
    /\ pc[w] = "waitSig"
    /\ moreToWrite[w] > 0
    /\ moreToWrite' = [moreToWrite EXCEPT ![w] = @ - 1]
    /\ pc' = [pc EXCEPT ![w] = "partial"]
    /\ UNCHANGED <<auxVars, cfgVars, phase, chans, pipeVars, fullEOF, exit, CurChunkStart,
                   totalWritten, readVars, old>>

\* writer.Write(buf[totalWritten:totalRead])
PartialWrite(w) ==
    /\ Live(w)
    /\ pc[w] = "partial"
    /\ PipeWrite(w)
    /\ pc' = [pc EXCEPT ![w] = "wloop"]
    /\ UNCHANGED <<auxVars, cfgVars, phase, chans, closeCount, closedBy, fullEOF, CurChunkStart,
                   readVars, moreToWrite, old>>

\* if reader.CurChunkStart+chunkSize < size { nextChan <- true } else { writer.Close() }
Handoff(w) ==
    /\ Live(w)
    /\ pc[w] = "handoff"
    /\ IF MoreChunksAfter(w)
       THEN /\ chans[NextChan(w)] = 0
            /\ chans' = [chans EXCEPT ![NextChan(w)] = 1]
            /\ UNCHANGED <<closeCount, closedBy>>
       ELSE /\ closeCount' = closeCount + 1
            /\ closedBy' = Append(closedBy, [w |-> w, start |-> CurChunkStart[w],
                                              written |-> Len(out)])
            /\ UNCHANGED chans
    /\ pc' = [pc EXCEPT ![w] = "advance"]
    /\ UNCHANGED <<auxVars, cfgVars, phase, out, outBy, fullEOF, exit, CurChunkStart, totalWritten,
                   readVars, moreToWrite, old>>

\* reader.AdvanceNextChunk()
AdvanceNextChunk(w) ==
    /\ Live(w)
    /\ pc[w] = "advance"
    /\ CurChunkStart' = [CurChunkStart EXCEPT ![w] = @ + numWorkers * chunkSize]
    /\ pc' = [pc EXCEPT ![w] = "loop"]
    /\ UNCHANGED <<auxVars, cfgVars, phase, chans, pipeVars, fullEOF, exit, totalWritten, readVars,
                   moreToWrite, old>>

\* ------------------------------------------------------------ specification
Next ==
    \/ GetDownloadStream
    \/ Prime
    \/ ConsumeFull
    \/ \E w \in Workers : WorkerEntry(w)
    \/ \E w \in Workers : LoopHead(w)
    \/ \E w \in Workers : ReaderTop(w)
    \/ \E w \in Workers : ReaderRead(w)
    \/ \E w \in Workers : ReaderCheck(w)
    \/ \E w \in Workers : ReaderPost(w)
    \/ \E w \in Workers : \E i \in 1 .. Len(old[w]) : OldCheck(w, i)
    \/ \E w \in Workers : \E i \in 1 .. Len(old[w]) : OldPost(w, i)
    \/ \E w \in Workers : WaitToken(w)
    \/ \E w \in Workers : WriteLoop(w)
    \/ \E w \in Workers : WaitSignal(w)
    \/ \E w \in Workers : PartialWrite(w)
    \/ \E w \in Workers : Handoff(w)
    \/ \E w \in Workers : AdvanceNextChunk(w)

Spec == Init /\ [][Next]_vars

\* The steps of worker w's main goroutine, of the reader goroutine of its
\* current chunk, and of the reader goroutines of its earlier chunks.
MainStep(w) ==
    \/ WorkerEntry(w)
    \/ LoopHead(w)
    \/ WaitToken(w)
    \/ WriteLoop(w)
    \/ WaitSignal(w)
    \/ PartialWrite(w)
    \/ Handoff(w)
    \/ AdvanceNextChunk(w)

ReaderStep(w) == ReaderTop(w) \/ ReaderRead(w) \/ ReaderCheck(w) \/ ReaderPost(w)

OldStep(w) == \E i \in 1 .. Len(old[w]) : OldCheck(w, i) \/ OldPost(w, i)

\* The Go scheduler runs every runnable goroutine eventually, every network read
\* returns, and the consumer keeps reading the pipe.
Fairness ==
    /\ WF_vars(GetDownloadStream)
    /\ WF_vars(Prime)
    /\ WF_vars(ConsumeFull)
    /\ \A w \in Workers : WF_vars(MainStep(w))
    /\ \A w \in Workers : WF_vars(ReaderStep(w))
    /\ \A w \in Workers : WF_vars(OldStep(w))

\* The fair behaviours are explored for the retry budgets up to MaxFairRetry.
FairInit == Init /\ RetryCount <= MaxFairRetry

FairSpec == FairInit /\ [][Next]_vars /\ Fairness

\* ================================================================= claims
\* The parallel path: the pipe exists and the workers have been started.
InParallel == phase \in {"spawned", "parallel"}

\* The consumer has observed end of stream.
EOF == IF phase = "full" THEN fullEOF ELSE closeCount > 0

\* s is a prefix of the object.
IsPrefix(s) == Len(s) <= size /\ \A i \in 1 .. Len(s) : s[i] = Data(i - 1)

\* The workers that are between receiving a token and handing it off or closing.
Holders == {w \in Workers : HoldsToken(w)}

\* Tokens lying in the ring's channels.
RECURSIVE TokensBelow(_)
TokensBelow(n) == IF n = 0 THEN 0 ELSE chans[n - 1] + TokensBelow(n - 1)

\* C1: in the parallel path (S >= C >= 1) the bytes written to the pipe so far
\* are object[0..k) for some k <= S, in every reachable state of every
\* interleaving: nothing is out of order, duplicated or skipped.
C1_PipeIsPrefix == (InParallel /\ chunkSize >= 1) => IsPrefix(out)

\* C1 witness: two workers have written a whole three-chunk object (worker 0
\* twice) although a read of worker 0 failed and was retried.
C1_Witness ==
    /\ phase = "parallel"
    /\ numWorkers = 2 /\ chunkSize = 1 /\ size = 3
    /\ out = Object
    /\ stripeFails[0] > 0

\* C2: the pipe writer is closed at most once and, once every worker is done,
\* exactly once; the close is done by the worker whose chunk has
\* CurChunkStart + C >= S, which wrote the last byte, after all S bytes were
\* written; until then a token exists (every other completion passed it on);
\* after the close nobody holds or is sent a token and nobody writes.
C2_ClosedOnceAtEnd ==
    (InParallel /\ chunkSize >= 1) =>
        /\ closeCount <= 1
        /\ exit # "fatal"
        /\ (\A w \in Workers : w < numWorkers => pc[w] = "done") => closeCount = 1
        /\ (closeCount = 0 /\ phase = "parallel") =>
               Cardinality(Holders) + TokensBelow(MaxWorkers) = 1
        /\ closeCount >= 1 =>
              /\ out = Object
              /\ closedBy[1].written = size
              /\ closedBy[1].start < size
              /\ closedBy[1].start + chunkSize >= size
              /\ outBy[size] = closedBy[1].w
              /\ Holders = {}
              /\ TokensBelow(MaxWorkers) = 0

\* C2 witness: worker 1 closed the pipe after the last, short chunk while
\* worker 0 had passed the token on.
C2_Witness ==
    /\ closeCount = 1
    /\ numWorkers = 2 /\ chunkSize = 2 /\ size = 3
    /\ closedBy[1].w = 1
    /\ pc[0] = "done" /\ pc[1] = "done"

\* C3: at most one worker holds the write token at any time.
C3_OneTokenHolder == Cardinality(Holders) <= 1

\* C3 witness: worker 0 holds the token and is writing while worker 1 has
\* read its whole chunk and waits for its turn.
C3_Witness ==
    /\ HoldsToken(0)
    /\ pc[1] = "waitToken"
    /\ rpc[1] = "done"
    /\ totalWritten[0] = 0

\* C4: the write turn follows chunk order.  The byte at offset p was written by
\* worker (p div C) mod N; a worker holding the token is the worker of the chunk
\* the pipe has reached, and all earlier chunks are completely written; a token
\* lying in worker i's channel means the pipe stands at the start of a chunk of
\* worker i.
C4_TurnFollowsChunks ==
    (InParallel /\ chunkSize >= 1) =>
        /\ \A i \in 1 .. Len(out) : outBy[i] = ((i - 1) \div chunkSize) % numWorkers
        /\ \A w \in Workers :
              HoldsToken(w) =>
                 /\ CurChunkStart[w] <= Len(out)
                 /\ Len(out) <= CurChunkStart[w] + chunkSize
                 /\ (CurChunkStart[w] \div chunkSize) % numWorkers = w
        /\ \A w \in Workers :
              chans[w] = 1 =>
                 /\ Len(out) % chunkSize = 0
                 /\ (Len(out) \div chunkSize) % numWorkers = w
                 /\ Len(out) < size

\* C4 witness: with two workers and three chunks the turn went 0, 1, 0.
C4_Witness ==
    /\ numWorkers = 2 /\ chunkSize = 1 /\ size = 3
    /\ outBy = <<0, 1, 0>>

\* C5 as claimed: for every size, every chunk size from 0 and every worker count,
\* in all three adapter modes and with the retry budget the tests configure
\* (math.MaxInt64), the download ends without error and at end of stream the
\* consumer holds exactly the object.
C5_Original ==
    RetryCount = MaxInt =>
        /\ exit = "none"
        /\ EOF => out = Object

\* C5 amended: the same with the chunk size at least 1 whenever the adapter
\* supports ranges (the single-range and multipart modes); chunk size 0 only
\* in the full-stream mode.
C5_ByteExact ==
    (RetryCount = MaxInt /\ (supportsRange => chunkSize >= 1)) =>
        /\ exit = "none"
        /\ IsPrefix(out)
        /\ EOF => out = Object

\* C5 witness: a multipart download by two workers of a three-byte object in
\* chunks of two bytes has reached end of stream.
C5_Witness ==
    /\ RetryCount = MaxInt
    /\ supportsRange /\ supportsMultipart
    /\ numWorkers = 2 /\ chunkSize = 2 /\ size = 3
    /\ EOF
    /\ out = Object

\* C6: the full-object stream is returned exactly when the probe reports no range
\* support or S < C; then no worker runs, no token is placed, no request for a
\* range is made, the pipe is never written or closed, and the consumer reads the
\* object's bytes.  With range support and S >= C (S = C included) the parallel
\* path is taken.
C6_ProbeFallthrough ==
    phase # "init" =>
        /\ (phase = "full") = (~supportsRange \/ size < chunkSize)
        /\ (supportsRange /\ size >= chunkSize) => InParallel
        /\ phase = "full" =>
              /\ \A w \in Workers :
                    /\ pc[w] = "none" /\ rpc[w] = "none"
                    /\ chans[w] = 0
                    /\ ~requested[w] /\ ~stream[w].open
              /\ closeCount = 0 /\ outBy = <<>>
              /\ IsPrefix(out)
              /\ fullEOF => out = Object

\* C6 witness: an object smaller than one chunk on an adapter that supports
\* ranges was read to its end over the full-object stream.
C6_Witness ==
    /\ phase = "full"
    /\ supportsRange /\ 0 < size /\ size < chunkSize
    /\ fullEOF

\* Every worker has left its chunk loop.
AllDone == \A w \in Workers : w < numWorkers => pc[w] = "done"

\* The consumer has received the whole object and then end of stream.
Delivered == closeCount >= 1 /\ out = Object

\* The failures charged to worker w's attempt counter since it was last set to 1:
\* those of its current chunk in single-range mode, those of its whole stripe in
\* multipart mode.
BudgetUsed(w) == IF UseMultipart THEN stripeFails[w] ELSE chunkFails[w]

\* C7 as claimed: under fair scheduling, with every read returning and the
\* consumer reading, a parallel download in which no chunk fails more often than
\* the retry budget eventually delivers all S bytes and closes the pipe.
C7_Original ==
    (InParallel /\ chunkSize >= 1) ~> (worstFails > RetryCount \/ Delivered)

\* C7 amended: under the same assumptions a parallel download eventually
\* delivers all S bytes, closes the pipe and lets every worker leave its loop
\* (so none waits forever for the token or for the more-to-write signal), unless
\* a worker's attempt counter runs out: more failures than RetryCount on one
\* chunk in single-range mode, or over the worker's whole stripe in multipart mode.
C7_EventuallyDelivered ==
    (InParallel /\ chunkSize >= 1) ~>
        \/ Delivered /\ AllDone
        \/ exit = EIO /\ \E w \in Workers : BudgetUsed(w) > RetryCount

\* C7 witness: two single-range workers have delivered a three-byte object in
\* chunks of one byte after two failures, and both have left their loops.
C7_Witness ==
    /\ ~supportsMultipart
    /\ numWorkers = 2 /\ chunkSize = 1 /\ size = 3
    /\ RetryCount = 1
    /\ stripeFails[0] = 1 /\ stripeFails[1] = 1
    /\ Delivered /\ AllDone

\* C8 as claimed: in every adapter mode, multipart included, when every chunk
\* fails fewer than RetryCount times the process does not exit with EIO and the
\* consumer receives the object's bytes in order.
C8_Original ==
    (InParallel /\ chunkSize >= 1 /\ worstFails < RetryCount) =>
        /\ exit # EIO
        /\ IsPrefix(out)
        /\ EOF => out = Object

\* C8 amended: the same when the failures stay below RetryCount per chunk in
\* single-range mode and per worker, summed over all chunks of its stripe, in
\* multipart mode.
C8_RetryIdempotent ==
    (/\ InParallel /\ chunkSize >= 1
     /\ IF UseMultipart
        THEN \A w \in Workers : stripeFails[w] < RetryCount
        ELSE worstFails < RetryCount) =>
        /\ exit # EIO
        /\ IsPrefix(out)
        /\ EOF => out = Object

\* C8 witness: a multipart download by two workers, each of which failed once
\* with a budget of two, has delivered the three-byte object.
C8_Witness ==
    /\ supportsMultipart
    /\ numWorkers = 2 /\ chunkSize = 1 /\ size = 3
    /\ RetryCount = 2
    /\ stripeFails[0] = 1 /\ stripeFails[1] = 1
    /\ EOF /\ out = Object

\* Worker w's reader goroutine takes the step that follows a Read.
AfterRead(w) == rpc[w] = "check" /\ rpc'[w] # "check"

\* The chunk of worker w is not finished.
Unfinished(w) == ~ChunkFinished(CurChunkStart[w], totalRead[w], size, chunkSize)

\* The step counts a failure of worker w's chunk and either exits with EIO,
\* when attemptNumber > RetryCount, or re-requests the chunk from the first byte
\* not yet read and adds exactly one to attemptNumber.
FailureHandled(w) ==
    /\ chunkFails'[w] = chunkFails[w] + 1
    /\ IF attemptNumber[w] > RetryCount
       THEN /\ exit' = EIO
            /\ attemptNumber'[w] = attemptNumber[w]
       ELSE /\ exit' = exit
            /\ attemptNumber'[w] = attemptNumber[w] + 1
            /\ stream'[w] = [open |-> TRUE, pos |-> CurChunkStart[w] + totalRead[w]]

\* C9 (steps): a failure is counted only on an unfinished chunk and is then
\* handled as above; a read error on an unfinished chunk is always counted.
C9_Step ==
    \A w \in Workers :
        /\ chunkFails'[w] = chunkFails[w] + 1 => Unfinished(w) /\ FailureHandled(w)
        /\ (AfterRead(w) /\ err[w] /\ Unfinished(w)) => FailureHandled(w)

\* C9 (states): in single-range mode attemptNumber is one more than the failures
\* of the current chunk, a chunk never has more than RetryCount + 1 failures, and
\* the process has exited with EIO exactly when some chunk has that many.
C9_Budget ==
    (InParallel /\ ~UseMultipart) =>
        /\ \A w \in Workers :
              /\ chunkFails[w] > RetryCount =>
                    /\ exit = EIO
                    /\ chunkFails[w] - 1 = RetryCount
                    /\ attemptNumber[w] = chunkFails[w]
              /\ (chunkFails[w] <= RetryCount /\ pc[w] \notin {"none", "entry"}) =>
                    attemptNumber[w] = chunkFails[w] + 1
        /\ exit = EIO => \E w \in Workers : chunkFails[w] > RetryCount

\* C9: on a read error or a too-slow verdict on an unfinished chunk the worker
\* exits with EIO if attemptNumber > RetryCount and otherwise resets the
\* connection and increments attemptNumber by one; so in single-range mode a
\* chunk tolerates exactly RetryCount failures and failure RetryCount + 1 exits.
C9_RetryOrExit == [][C9_Step]_vars /\ []C9_Budget

\* C9 witness: in single-range mode with a budget of two, the third failure of
\* one chunk has ended the process with EIO.
C9_Witness ==
    /\ ~supportsMultipart
    /\ RetryCount = 2
    /\ exit = EIO
    /\ \E w \in Workers : chunkFails[w] = 3 /\ attemptNumber[w] = 3

\* C10 (steps): a too-slow verdict on an unfinished chunk is handled as a read
\* error is: same counter, same test, same reset.
C10_Step ==
    \A w \in Workers :
        (AfterRead(w) /\ chunkTooSlowSoFar[w] /\ Unfinished(w)) => FailureHandled(w)

\* C10 (states): a chunk judged too slow on more than RetryCount attempts has
\* ended the process with EIO, and a process ended with EIO has not closed the
\* pipe.
C10_SlowIsFatal ==
    /\ \A w \in Workers :
          (causes[w] = "slow" /\ chunkFails[w] > RetryCount) => exit = EIO
    /\ exit = EIO => closeCount = 0

\* C10: a slow connection on an unfinished chunk is handled exactly like a read
\* error, drawing on the same attemptNumber and triggering the same reset; a
\* chunk whose every attempt is judged too slow ends the process with EIO, and
\* the pipe is never closed.
C10_SlowLikeError == [][C10_Step]_vars /\ []C10_SlowIsFatal

\* C10 witness: with a budget of one, a chunk was judged too slow on its first
\* attempt, re-requested, judged too slow again, and the process ended with EIO
\* without closing the pipe.
C10_Witness ==
    /\ RetryCount = 1
    /\ exit = EIO
    /\ closeCount = 0
    /\ \E w \in Workers :
          causes[w] = "slow" /\ chunkFails[w] = 2 /\ attemptNumber[w] = 2

\* ===================================================== the HTTP adapter
\* What one client.Do can give: a transport error, or a response with a status
\* code (StatusCode is 0 with a transport error).
StatusCodes == {199, 200, 299, 300, 404, 429, 503}

Outcomes ==
    {[err |-> TRUE, StatusCode |-> 0]} \cup
    {[err |-> FALSE, StatusCode |-> c] : c \in StatusCodes}

\* The headers of a response that GetFileInfo reads.
ContentLengths == 0 .. MaxSize
AcceptRangesValues == {"", "bytes"}

\* if curResp.StatusCode < 200 || curResp.StatusCode > 299
FailedResponse(code) == code < 200 \/ code > 299

\* (mutant) a 404 is a failed response like any other.
NotFound_Never(code) == FALSE

\* if curResp.StatusCode == 404
NotFound(code) == code = 404

\* (mutant) only a 429 counts as throttling.
Throttling_429Only(code) == code = 429

\* if curResp.StatusCode == 429 || curResp.StatusCode == 503
Throttling(code) == code = 429 \/ code = 503

\* (mutant) retry.Do calls the function once more.
MayAttempt_OneMore == attempts <= optsRetryCount

\* retry.Attempts(uint(opts.RetryCount)): retry.Do calls the function while fewer
\* than that many calls were made (none at all with a count of 0) and none has
\* returned nil.
MayAttempt == attempts < optsRetryCount

\* (mutant) an object of exactly one chunk is probed for range support too.
FileInfoOf_Inclusive(r) ==
    IF r.ContentLength >= optsChunkSize
    THEN <<r.ContentLength, r.AcceptRanges # "", FALSE>>
    ELSE <<r.ContentLength, FALSE, FALSE>>

\* GetFileInfo's result from the HEAD response.
FileInfoOf(r) ==
    IF r.ContentLength > optsChunkSize
    THEN <<r.ContentLength, r.AcceptRanges # "", FALSE>>
    ELSE <<r.ContentLength, FALSE, FALSE>>

\* (mutant) the configured Accept-Ranges decides alone.
SkipHeadInfo_AnySize == <<optsContentLength, optsAcceptRanges # "", FALSE>>

\* GetFileInfo's result from the options, without a probe.
SkipHeadInfo ==
    <<optsContentLength,
      optsAcceptRanges # "" /\ optsContentLength > optsChunkSize,
      FALSE>>

HttpInit ==
    /\ aux \in [part : {"http"},
                optsSkipHead : BOOLEAN,
                optsContentLength : ContentLengths,
                optsAcceptRanges : AcceptRangesValues,
                optsChunkSize : 0 .. MaxChunk,
                optsRetryCount : 0 .. MaxAttempts,
                hpc : {"start"},
                attempts : {0},
                throttled : {FALSE},
                resp : {NoResponse},
                hexit : {"none"},
                fileInfo : {<<>>},
                tried : {<<>>}]
    /\ EngineOff

\* GetFileInfo with opts.SkipHead set: no request is made.
GetFileInfoSkipHead ==
    /\ hexit = "none"
    /\ hpc = "start"
    /\ optsSkipHead
    /\ aux' = [aux EXCEPT !.fileInfo = SkipHeadInfo, !.hpc = "done"]
    /\ UNCHANGED engineVars

\* req := httpDownloader.generateRequest("HEAD"); retryHttpRequest(req) begins.
GetFileInfoHead ==
    /\ hexit = "none"
    /\ hpc = "start"
    /\ ~optsSkipHead
    /\ aux' = [aux EXCEPT !.hpc = "retry"]
    /\ UNCHANGED engineVars

\* One call of the function retryHttpRequest hands to retry.Do.
Attempt ==
    /\ hexit = "none"
    /\ hpc = "retry"
    /\ MayAttempt
    /\ \E o \in Outcomes :
          LET called == [aux EXCEPT !.tried = Append(@, o), !.attempts = @ + 1]
          IN  IF o.err
              THEN aux' = called
              ELSE IF FailedResponse(o.StatusCode)
              THEN IF NotFound(o.StatusCode)
                   THEN aux' = [called EXCEPT !.hexit = ENOENT]
                   ELSE aux' = [called EXCEPT
                                  !.throttled = @ \/ Throttling(o.StatusCode)]
              ELSE \E cl \in ContentLengths, ar \in AcceptRangesValues :
                     aux' = [called EXCEPT
                               !.resp = [StatusCode |-> o.StatusCode,
                                         ContentLength |-> cl, AcceptRanges |-> ar],
                               !.hpc = "returned"]
    /\ UNCHANGED engineVars

\* retry.Do returned an error: os.Exit(int(unix.EBUSY)) or log.Fatal.
GiveUp ==
    /\ hexit = "none"
    /\ hpc = "retry"
    /\ ~MayAttempt
    /\ aux' = [aux EXCEPT !.hexit = IF throttled THEN EBUSY ELSE "fatal"]
    /\ UNCHANGED engineVars

\* GetFileInfo returns what the response says.
GetFileInfoReturn ==
    /\ hexit = "none"
    /\ hpc = "returned"
    /\ aux' = [aux EXCEPT !.fileInfo = FileInfoOf(resp), !.hpc = "done"]
    /\ UNCHANGED engineVars

HttpNext ==
    \/ GetFileInfoSkipHead
    \/ GetFileInfoHead
    \/ Attempt
    \/ GiveUp
    \/ GetFileInfoReturn

HttpSpec == HttpInit /\ [][HttpNext]_vars

\* -------------------------------------------- claims on the HTTP adapter
\* The i-th client.Do of the call gave a response with status 404.
Was404(i) == ~tried[i].err /\ tried[i].StatusCode = 404

\* The i-th client.Do gave a 2xx response.
Was2xx(i) == ~tried[i].err /\ tried[i].StatusCode \in 200 .. 299

\* The i-th client.Do gave a 429 or a 503 response.
WasThrottled(i) == ~tried[i].err /\ tried[i].StatusCode \in {429, 503}

\* The i-th client.Do gave a transport error or a non-2xx status other than
\* 404, 429 and 503.
WasTransient(i) == tried[i].err \/ ~(Was2xx(i) \/ Was404(i) \/ WasThrottled(i))

\* retryHttpRequest has been called and has returned or ended the process.
CallOver ==
    \/ hexit # "none"
    \/ hpc = "returned"
    \/ hpc = "done" /\ ~optsSkipHead

\* C11: the first 404 response ends the process with ENOENT at once: it is the
\* last attempt of the call, whatever the attempts left and whatever the earlier
\* attempts gave, and nothing is returned.
C11_NotFoundIsTerminal ==
    \A i \in 1 .. Len(tried) :
        Was404(i) =>
            /\ i = Len(tried)
            /\ hexit = ENOENT
            /\ resp = NoResponse
            /\ fileInfo = <<>>

\* C11 witness: with three attempts allowed the first was throttled, the second
\* got a 404 and the process ended with ENOENT, one attempt unused.
C11_Witness ==
    /\ optsRetryCount = 3
    /\ Len(tried) = 2
    /\ WasThrottled(1) /\ Was404(2)
    /\ hexit = ENOENT

\* C12: a call makes at most opts.RetryCount attempts; a 2xx response on any
\* attempt ends the call with that response; a call all of whose attempts were
\* 429/503 responses ends the process with EBUSY; a call all of whose attempts
\* were transport errors or other non-2xx statuses ends it with log.Fatal, an
\* exit that is neither EBUSY nor ENOENT.
C12_BoundedAttempts ==
    /\ attempts = Len(tried)
    /\ attempts <= optsRetryCount
    /\ \A i \in 1 .. Len(tried) :
          Was2xx(i) =>
              /\ i = Len(tried)
              /\ hexit = "none"
              /\ resp # NoResponse
              /\ resp.StatusCode = tried[i].StatusCode
    /\ hexit \in {EBUSY, "fatal"} =>
          /\ attempts = optsRetryCount
          /\ \A i \in 1 .. Len(tried) : WasThrottled(i) \/ WasTransient(i)
    /\ (CallOver /\ tried # <<>> /\ \A i \in 1 .. Len(tried) : WasThrottled(i)) =>
          hexit = EBUSY
    /\ (CallOver /\ \A i \in 1 .. Len(tried) : WasTransient(i)) =>
          hexit = "fatal" /\ hexit \notin {EBUSY, ENOENT}

\* C12 witness: three attempts allowed, all three throttled (a 429, then a 503,
\* then either), and the process ended with EBUSY.
C12_Witness ==
    /\ optsRetryCount = 3
    /\ Len(tried) = 3
    /\ tried[1].StatusCode = 429 /\ tried[2].StatusCode = 503 /\ WasThrottled(3)
    /\ hexit = EBUSY

\* C13: after a HEAD probe GetFileInfo returns the response's Content-Length as
\* the size and no multipart support; no range support when the chunk size is
\* at least the size, and otherwise range support exactly when the response has
\* a non-empty Accept-Ranges header.
C13_FileInfoFromHead ==
    (~optsSkipHead /\ fileInfo # <<>>) =>
        /\ fileInfo[1] = resp.ContentLength
        /\ fileInfo[3] = FALSE
        /\ optsChunkSize >= resp.ContentLength => fileInfo[2] = FALSE
        /\ resp.ContentLength > optsChunkSize =>
              fileInfo[2] = (resp.AcceptRanges # "")

\* C13 witness: an object of exactly one chunk on a server that accepts ranges
\* was reported without range support.
C13_Witness ==
    /\ ~optsSkipHead
    /\ fileInfo # <<>>
    /\ resp.ContentLength = optsChunkSize /\ optsChunkSize >= 1
    /\ resp.AcceptRanges = "bytes"
    /\ fileInfo = <<optsChunkSize, FALSE, FALSE>>

RECURSIVE SplitOn(_, _)
SplitOn(str, sep) ==
    IF \E k \in 1 .. Len(str) : str[k] = sep
    THEN LET k == CHOOSE k \in 1 .. Len(str) :
                      str[k] = sep /\ \A j \in 1 .. (k - 1) : str[j] # sep
         IN  <<SubSeq(str, 1, k - 1)>> \o SplitOn(SubSeq(str, k + 1, Len(str)), sep)
    ELSE <<str>>

\* ================================================= GenerateRangeString
\* A Go string is the sequence of its characters.
Digits == <<"0", "1", "2", "3", "4", "5", "6", "7", "8", "9">>

\* strconv.FormatInt(n, 10)
RECURSIVE FormatNat(_)
FormatNat(n) ==
    IF n < 10 THEN <<Digits[n + 1]>> ELSE FormatNat(n \div 10) \o <<Digits[(n % 10) + 1]>>

FormatInt(n) == IF n < 0 THEN <<"-">> \o FormatNat(0 - n) ELSE FormatNat(n)

\* (mutant) the end is written as it was passed.
InclusiveEnd_Same(end) == end

\* ranges[i][1]-1
InclusiveEnd(end) == end - 1

\* The offsets a range may start or end at.
Offsets == {0, 1, 3, 6, 10, MaxOffset}

\* The lists of at most n ranges.
RECURSIVE RangeLists(_)
RangeLists(n) ==
    IF n = 0
    THEN {<<>>}
    ELSE LET shorter == RangeLists(n - 1)
         IN  shorter \cup {Append(l, <<a, b>>) : l \in shorter, a \in Offsets, b \in Offsets}

\* var rangeString = "bytes="
RangeInit ==
    /\ aux \in [part : {"range"},
                ranges : RangeLists(MaxRanges),
                i : {0},
                rangeString : {<<"b", "y", "t", "e", "s", "=">>},
                returned : {FALSE}]
    /\ EngineOff

\* One iteration of the loop over ranges (ranges[i] is the model's ranges[i + 1]).
RangeLoop ==
    /\ ~rangeReturned
    /\ rangeIdx < Len(ranges)
    /\ aux' = [aux EXCEPT
                 !.rangeString =
                     @ \o FormatInt(ranges[rangeIdx + 1][1]) \o <<"-">>
                       \o FormatInt(InclusiveEnd(ranges[rangeIdx + 1][2]))
                       \o (IF rangeIdx + 1 < Len(ranges) THEN <<",">> ELSE <<>>),
                 !.i = @ + 1]
    /\ UNCHANGED engineVars

\* return rangeString
RangeReturn ==
    /\ ~rangeReturned
    /\ ~(rangeIdx < Len(ranges))
    /\ aux' = [aux EXCEPT !.returned = TRUE]
    /\ UNCHANGED engineVars

RangeNext == RangeLoop \/ RangeReturn

RangeSpec == RangeInit /\ [][RangeNext]_vars

\* ------------------------------------------ claims on GenerateRangeString
\* str is a non-empty string of decimal digits.
IsNat(str) == str # <<>> /\ \A k \in 1 .. Len(str) : \E d \in 1 .. 10 : Digits[d] = str[k]

\* The number a string of decimal digits denotes.
RECURSIVE ParseNat(_)
ParseNat(str) ==
    IF str = <<>>
    THEN 0
    ELSE 10 * ParseNat(SubSeq(str, 1, Len(str) - 1))
           + (CHOOSE d \in 0 .. 9 : Digits[d + 1] = str[Len(str)])

\* str denotes the integer n in decimal, with a leading "-" if negative.
Denotes(str, n) ==
    IF str # <<>> /\ str[1] = "-"
    THEN IsNat(Tail(str)) /\ 0 - ParseNat(Tail(str)) = n
    ELSE IsNat(str) /\ ParseNat(str) = n

\* item is "a-e": the decimal of a, one "-", the decimal of e.
IsItem(item, a, e) ==
    \E k \in 2 .. (Len(item) - 1) :
        /\ item[k] = "-"
        /\ Denotes(SubSeq(item, 1, k - 1), a)
        /\ Denotes(SubSeq(item, k + 1, Len(item)), e)

\* C15: for a non-empty list of ranges the string returned is "bytes=" followed
\* by one item per range, in input order, separated by single commas with no
\* trailing comma; the item of [a, b) is a-(b - 1).
C15_RangeString ==
    (rangeReturned /\ ranges # <<>>) =>
        /\ SubSeq(rangeString, 1, 6) = <<"b", "y", "t", "e", "s", "=">>
        /\ rangeString[Len(rangeString)] # ","
        /\ LET items == SplitOn(SubSeq(rangeString, 7, Len(rangeString)), ",")
           IN  /\ Len(items) = Len(ranges)
               /\ \A i \in 1 .. Len(ranges) :
                     IsItem(items[i], ranges[i][1], ranges[i][2] - 1)

\* C15 witness: [[0, 1], [3, 6]] has given bytes=0-0,3-5.
C15_Witness ==
    /\ rangeReturned
    /\ ranges = << <<0, 1>>, <<3, 6>> >>
    /\ rangeString = <<"b", "y", "t", "e", "s", "=", "0", "-", "0", ",", "3", "-", "5">>

\* =========================================================== ExtractTar
\* The names of the model's archives, as Go strings: a file at the top, one
\* in a directory, one in a directory of a directory.  They hold no "." and
\* no ".." element, which filepath.Join would clean away.
Names == {<<"f">>, <<"d", "/", "f">>, <<"d", "/", "e", "/", "f">>}

\* The entries of the model's archives: regular files and hard links.
Entries ==
    [Typeflag : {"reg"}, Name : Names, Linkname : {<<>>}] \cup
    [Typeflag : {"link"}, Name : Names, Linkname : Names]

\* The archives of at most n entries.
RECURSIVE Archives(_)
Archives(n) ==
    IF n = 0
    THEN {<<>>}
    ELSE LET shorter == Archives(n - 1)
         IN  shorter \cup {Append(a, e) : a \in shorter, e \in Entries}

\* filepath.Join(elems...): the non-empty elements joined by "/".
RECURSIVE JoinPath(_)
JoinPath(elems) ==
    IF elems = <<>>
    THEN <<>>
    ELSE LET rest == JoinPath(Tail(elems))
         IN  IF Head(elems) = <<>> THEN rest
             ELSE IF rest = <<>> THEN Head(elems)
             ELSE Head(elems) \o <<"/">> \o rest

\* The slice expression strings.Split(str, "/")[*stripComponents:] does not panic.
SliceInRange(str) == stripComponents <= Len(SplitOn(str, "/"))

\* filepath.Join(strings.Split(str, "/")[*stripComponents:]...)
Stripped(str) ==
    LET elems == SplitOn(str, "/")
    IN  JoinPath(SubSeq(elems, stripComponents + 1, Len(elems)))

\* name and linkName after the strip-components block.
NameOf(str) == IF stripComponents # 0 THEN Stripped(str) ELSE str

LinkNameOf(str) == IF stripComponents # 0 /\ str # <<>> THEN Stripped(str) ELSE str

\* The strip-components block panics on this header.
StripPanics(h) ==
    /\ stripComponents # 0
    /\ \/ ~SliceInRange(h.Name)
       \/ h.Linkname # <<>> /\ ~SliceInRange(h.Linkname)

\* (mutant) the main loop does not wait for a token.
TokenFree_Always == TRUE

\* <-openFileTokens can proceed.
TokenFree == openFileTokens > 0

\* (mutant) hardLink does not wait.
HardLinkMayProceed_Always == TRUE

\* wg.Wait() in hardLink returns.
HardLinkMayProceed == wg = 0

\* (mutant) ExtractTar does not wait at the end.
ExtractTarMayReturn_Always == TRUE

\* wg.Wait() at the end of ExtractTar returns.
ExtractTarMayReturn == wg = 0

\* The file that the writer goroutine of entry i writes.
WriterPath(i) == NameOf(archive[i].Name)

\* The writer goroutine of entry i is between its first and its last file
\* operation (Stat/Remove, OpenFile, Copy, Close, Chown, Chmod).
DoingFileOps(i) == writers[i] \in {"open", "copy", "close"}

\* The writer goroutine of entry i has been started and has not called wg.Done().
Outstanding(i) == writers[i] \in {"open", "copy", "close", "release", "done"}

\* p exists and no writer has it open with its contents not yet copied.
FullyWritten(p) ==
    /\ p \in fs
    /\ \A i \in 1 .. MaxEntries : writers[i] = "copy" => WriterPath(i) # p

\* After openFileTokens was made and filled.
TarInit ==
    /\ aux \in {[part |-> "tar",
                 writeWorkers |-> w,
                 stripComponents |-> k,
                 overwrite |-> o,
                 archive |-> a,
                 idx |-> 0,
                 tpc |-> "next",
                 path |-> <<>>,
                 newPath |-> <<>>,
                 openFileTokens |-> w,
                 wg |-> 0,
                 writers |-> [i \in 1 .. MaxEntries |-> "none"],
                 fs |-> {},
                 inode |-> <<>>,
                 contents |-> [i \in 1 .. MaxEntries |-> 0],
                 files |-> [i \in 1 .. MaxEntries |-> 0],
                 linked |-> <<>>,
                 skipped |-> {},
                 texit |-> "none"] :
                w \in 0 .. MaxWriters, k \in 0 .. MaxStrip, o \in BOOLEAN,
                a \in Archives(MaxEntries)}
    /\ EngineOff

\* tarReader.Next() and what the loop does with the header up to the switch:
\* the end of the archive, the strip-components block, the empty-name test.
TarNextEntry ==
    /\ texit = "none"
    /\ tpc = "next"
    /\ IF entryIdx = Len(archive)
       THEN aux' = [aux EXCEPT !.tpc = "wait"]
       ELSE LET h == archive[entryIdx + 1]
            IN  IF StripPanics(h)
                THEN aux' = [aux EXCEPT !.idx = @ + 1, !.texit = "panic"]
                ELSE IF NameOf(h.Name) = <<>>
                THEN aux' = [aux EXCEPT !.idx = @ + 1,
                                        !.skipped = @ \cup {entryIdx + 1}]
                ELSE aux' = [aux EXCEPT
                               !.idx = @ + 1,
                               !.path = NameOf(h.Name),
                               !.newPath = LinkNameOf(h.Linkname),
                               !.tpc = IF h.Typeflag = "reg" THEN "acquire" ELSE "wgWait"]
    /\ UNCHANGED engineVars

\* case tar.TypeReg: <-openFileTokens; wg.Add(1); go writeFileAsync(...)
Acquire ==
    /\ texit = "none"
    /\ tpc = "acquire"
    /\ TokenFree
    /\ aux' = [aux EXCEPT !.openFileTokens = @ - 1,
                          !.wg = @ + 1,
                          !.writers[entryIdx] = "open",
                          !.tpc = "next"]
    /\ UNCHANGED engineVars

\* hardLink: wg.Wait()
HardLinkWait ==
    /\ texit = "none"
    /\ tpc = "wgWait"
    /\ HardLinkMayProceed
    /\ aux' = [aux EXCEPT !.tpc = "link"]
    /\ UNCHANGED engineVars

\* hardLink: the removal under *overwrite, os.Link(newPath, path), os.Chown.
\* os.Link fails when newPath does not exist or path exists.
HardLinkCreate ==
    /\ texit = "none"
    /\ tpc = "link"
    /\ LET left == IF overwrite THEN fs \ {path} ELSE fs
       IN  IF newPath \notin left \/ path \in left
           THEN aux' = [aux EXCEPT !.fs = left,
                                   !.inode = [q \in left |-> inode[q]],
                                   !.texit = "fatal"]
           ELSE aux' = [aux EXCEPT
                          !.fs = left \cup {path},
                          !.inode = [q \in left \cup {path} |->
                                        IF q = path THEN inode[newPath] ELSE inode[q]],
                          !.linked = Append(@, [path |-> path,
                                                source |-> newPath,
                                                sourceFull |-> FullyWritten(newPath),
                                                busy |-> Cardinality(
                                                    {i \in 1 .. MaxEntries : Outstanding(i)})]),
                          !.tpc = "next"]
    /\ UNCHANGED engineVars

\* wg.Wait() at the end of ExtractTar, and the return.
FinalWait ==
    /\ texit = "none"
    /\ tpc = "wait"
    /\ ExtractTarMayReturn
    /\ aux' = [aux EXCEPT !.tpc = "returned"]
    /\ UNCHANGED engineVars

\* The file os.OpenFile gives writer goroutine i: the one its path names, or a
\* new one if the path names none or the file was removed under *overwrite.
Opened(i) ==
    IF WriterPath(i) \in fs /\ ~overwrite THEN inode[WriterPath(i)] ELSE i

\* writeFileAsync: the removal under *overwrite and os.OpenFile with
\* O_CREATE|O_TRUNC, which leaves the file empty.
WriterOpen(i) ==
    /\ texit = "none"
    /\ writers[i] = "open"
    /\ aux' = [aux EXCEPT
                 !.fs = @ \cup {WriterPath(i)},
                 !.inode = [q \in fs \cup {WriterPath(i)} |->
                               IF q = WriterPath(i) THEN Opened(i) ELSE inode[q]],
                 !.contents[Opened(i)] = 0,
                 !.files[i] = Opened(i),
                 !.writers[i] = "copy"]
    /\ UNCHANGED engineVars

\* writeFileAsync: io.Copy, one Write of the whole buffer to the opened file.
WriterCopy(i) ==
    /\ texit = "none"
    /\ writers[i] = "copy"
    /\ aux' = [aux EXCEPT !.contents[files[i]] = i, !.writers[i] = "close"]
    /\ UNCHANGED engineVars

\* writeFileAsync: the deferred file.Close(), os.Chown and os.Chmod.
WriterClose(i) ==
    /\ texit = "none"
    /\ writers[i] = "close"
    /\ aux' = [aux EXCEPT !.writers[i] = "release"]
    /\ UNCHANGED engineVars

\* (mutant) the writer goroutine ends without returning its token.
WriterRelease_NoToken(i) ==
    /\ texit = "none"
    /\ writers[i] = "release"
    /\ aux' = [aux EXCEPT !.writers[i] = "done"]
    /\ UNCHANGED engineVars

\* writeFileAsync: the deferred openFileTokens <- true
WriterRelease(i) ==
    /\ texit = "none"
    /\ writers[i] = "release"
    /\ aux' = [aux EXCEPT !.openFileTokens = @ + 1, !.writers[i] = "done"]
    /\ UNCHANGED engineVars

\* writeFileAsync: the deferred wg.Done()
WriterDone(i) ==
    /\ texit = "none"
    /\ writers[i] = "done"
    /\ aux' = [aux EXCEPT !.wg = @ - 1, !.writers[i] = "finished"]
    /\ UNCHANGED engineVars

TarNext ==
    \/ TarNextEntry
    \/ Acquire
    \/ HardLinkWait
    \/ HardLinkCreate
    \/ FinalWait
    \/ \E i \in 1 .. MaxEntries : WriterOpen(i)
    \/ \E i \in 1 .. MaxEntries : WriterCopy(i)
    \/ \E i \in 1 .. MaxEntries : WriterClose(i)
    \/ \E i \in 1 .. MaxEntries : WriterRelease(i)
    \/ \E i \in 1 .. MaxEntries : WriterDone(i)

TarSpec == TarInit /\ [][TarNext]_vars

\* The steps of the goroutine that runs ExtractTar.
TarMain == TarNextEntry \/ Acquire \/ HardLinkWait \/ HardLinkCreate \/ FinalWait

\* The steps of the writer goroutine of entry i.
Writer(i) ==
    WriterOpen(i) \/ WriterCopy(i) \/ WriterClose(i) \/ WriterRelease(i) \/ WriterDone(i)

\* The Go scheduler runs every goroutine that can take a step.
TarFairness ==
    /\ WF_vars(TarMain)
    /\ \A i \in 1 .. MaxEntries : WF_vars(Writer(i))

\* Longest archive of the runs checked for liveness.
MaxFairEntries == 2

FairTarInit == TarInit /\ Len(archive) <= MaxFairEntries

FairTarSpec == FairTarInit /\ [][TarNext]_vars /\ TarFairness

\* ------------------------------------------------- claims on ExtractTar
\* The writer goroutines that are performing file operations.
Busy == {i \in 1 .. MaxEntries : DoingFileOps(i)}

\* The writer goroutines that hold a token of openFileTokens.
HoldingToken == {i \in 1 .. MaxEntries : writers[i] \in {"open", "copy", "close", "release"}}

\* C16: at most *writeWorkers writer goroutines perform file operations at
\* once: each holds one of the *writeWorkers tokens from before its first file
\* operation until after its last.
C16_AtMostWWriters ==
    aux.part = "tar" =>
        /\ Cardinality(Busy) <= writeWorkers
        /\ openFileTokens >= 0
        /\ openFileTokens + Cardinality(HoldingToken) = writeWorkers

\* C16 witness: with two write workers two writers are at their file
\* operations and the main loop waits for a token for a third file.
C16_Witness ==
    /\ aux.part = "tar"
    /\ writeWorkers = 2
    /\ Cardinality(Busy) = 2
    /\ tpc = "acquire"
    /\ openFileTokens = 0

\* C17: when a hard link is created no writer goroutine started for an earlier
\* entry is still outstanding and the link's source is fully written; between
\* hardLink's wait and the creation of the link no writer is outstanding, the
\* main loop starting none while it is in hardLink.
C17_HardLinkBarrier ==
    aux.part = "tar" =>
        /\ \A j \in 1 .. Len(linked) : linked[j].busy = 0 /\ linked[j].sourceFull
        /\ tpc = "link" => \A i \in 1 .. MaxEntries : ~Outstanding(i)

\* C17 witness: two regular files were written by two write workers and a hard
\* link to the first of them was then created.
C17_Witness ==
    /\ aux.part = "tar"
    /\ writeWorkers = 2
    /\ Len(archive) = 3
    /\ archive[1].Typeflag = "reg" /\ archive[2].Typeflag = "reg"
    /\ archive[3].Typeflag = "link"
    /\ Len(linked) = 1
    /\ linked[1].source = WriterPath(1)
    /\ writers[1] = "finished" /\ writers[2] = "finished"

\* C18: when ExtractTar has returned every writer goroutine it started has
\* finished: no write is pending, every token is back.
C18_ReturnsAfterWriters ==
    (aux.part = "tar" /\ tpc = "returned") =>
        /\ \A i \in 1 .. MaxEntries : writers[i] \in {"none", "finished"}
        /\ wg = 0
        /\ openFileTokens = writeWorkers

\* C18 witness: ExtractTar has returned from an archive of three regular files
\* written by two write workers.
C18_Witness ==
    /\ aux.part = "tar"
    /\ tpc = "returned"
    /\ writeWorkers = 2
    /\ \A i \in 1 .. 3 : writers[i] = "finished"

\* The number of path components of a name.
Components(str) == Len(SplitOn(str, "/"))

\* The main loop takes the next header.
TakesEntry == tpc = "next" /\ entryIdx < Len(archive) /\ aux'.idx = entryIdx + 1

\* C19 as claimed (a step of the main loop on a header): a name of more than
\* *stripComponents components is extracted under the name without its first
\* *stripComponents components; a name of at most that many components is
\* skipped without any effect on the file system and the loop goes on to the
\* next entry.
C19_Step ==
    (aux.part = "tar" /\ TakesEntry) =>
        LET h == archive[entryIdx + 1]
            elems == SplitOn(h.Name, "/")
        IN  IF Components(h.Name) > stripComponents
            THEN /\ aux'.texit = "none"
                 /\ aux'.tpc \in {"acquire", "wgWait"}
                 /\ aux'.path = JoinPath(SubSeq(elems, stripComponents + 1, Len(elems)))
            ELSE /\ aux'.texit = "none"
                 /\ aux'.tpc = "next"
                 /\ aux'.fs = fs
                 /\ aux'.writers = writers
                 /\ aux'.skipped = skipped \cup {entryIdx + 1}

\* C19: with strip-components k every entry is either extracted under its name
\* less the first k components or, when the name has at most k components,
\* skipped with no effect, the extraction continuing.
C19_StripOrSkip == [][C19_Step]_vars

\* ======================================================== getMagicNumber
\* Longest source stream.
MaxStream == 5

\* buf := make([]byte, 4)
PeekLen == 4

\* The byte values of the source stream: the bytes of the gzip and lz4 magic
\* numbers (1f 8b, 04 22 4d 18).
Bytes == {4, 24, 31, 34, 77, 139}

\* The streams of at most n bytes.
RECURSIVE Streams(_)
Streams(n) ==
    IF n = 0
    THEN {<<>>}
    ELSE LET shorter == Streams(n - 1)
         IN  shorter \cup {Append(st, b) : st \in shorter, b \in Bytes}

HexDigits == <<"0", "1", "2", "3", "4", "5", "6", "7", "8", "9", "a", "b", "c", "d", "e", "f">>

\* hex.EncodeToString
RECURSIVE EncodeToString(_)
EncodeToString(bs) ==
    IF bs = <<>>
    THEN <<>>
    ELSE <<HexDigits[(bs[1] \div 16) + 1], HexDigits[(bs[1] % 16) + 1]>>
         \o EncodeToString(Tail(bs))

\* The fields of aux in MagicSpec.
source == aux.source
sourcePos == aux.sourcePos
magicBuf == aux.buf
magicTotalRead == aux.totalRead
mpc == aux.mpc
magicNumber == aux.magicNumber
splicedStream == aux.splicedStream
emitted == aux.emitted
downEOF == aux.downEOF
\* *compression, the file name and what getCompressionType returned ("none"
\* before the call)
compression == aux.compression
filename == aux.filename
compressionType == aux.compressionType

gzipMagicNumber == <<"1", "f", "8", "b">>
lz4MagicNumber == <<"0", "4", "2", "2", "4", "d", "1", "8">>

\* CompressionType
Tar == "Tar"
Gzip == "Gzip"
Lz4 == "Lz4"

\* strings.HasPrefix and strings.HasSuffix
HasPrefix(str, prefix) ==
    Len(prefix) <= Len(str) /\ SubSeq(str, 1, Len(prefix)) = prefix

HasSuffix(str, suffix) ==
    Len(suffix) <= Len(str) /\ SubSeq(str, Len(str) - Len(suffix) + 1, Len(str)) = suffix

\* The file names of the URL: a.lz4, a.gz, a.tar, a.
Filenames ==
    {<<"a", ".", "l", "z", "4">>, <<"a", ".", "g", "z">>, <<"a", ".", "t", "a", "r">>, <<"a">>}

\* The calls of getCompressionType, as <<*compression, filename>>: every file
\* name without an override, every override with a file name of another format.
Invocations ==
    {<<"", f>> : f \in Filenames}
        \cup {<<"tar", <<"a", ".", "g", "z">>>>,
              <<"gzip", <<"a", ".", "l", "z", "4">>>>,
              <<"lz4", <<"a", ".", "t", "a", "r">>>>}

getCompressionType(override, file, magic) ==
    IF override # ""
    THEN IF override = "tar" THEN Tar
         ELSE IF override = "gzip" THEN Gzip
         ELSE Lz4
    ELSE IF HasPrefix(magic, gzipMagicNumber) THEN Gzip
         ELSE IF HasPrefix(magic, lz4MagicNumber) THEN Lz4
         ELSE IF HasSuffix(file, <<"l", "z", "4">>) THEN Lz4
         ELSE IF HasSuffix(file, <<"g", "z">>) THEN Gzip
         ELSE IF HasSuffix(file, <<"t", "a", "r">>) THEN Tar
         ELSE Tar

\* No stream has been returned yet.
NoStream == [peek |-> <<>>, off |-> 0, N |-> 0, rest |-> FALSE]

\* The buffer b after a Read that stored data from index off on, reading into the
\* whole buffer instead of buf[totalRead:].
BufAfterRead_FromStart(b, off, data) ==
    [k \in 1 .. Len(b) |-> IF k <= Len(data) THEN data[k] ELSE b[k]]

\* The buffer b after reader.Read(buf[off:]) stored data.
BufAfterRead(b, off, data) ==
    [k \in 1 .. Len(b) |->
        IF k > off /\ k <= off + Len(data) THEN data[k - off] ELSE b[k]]

\* io.LimitReader(bytes.NewReader(b), n)
LimitReader(b, n) == [peek |-> b, off |-> 0, N |-> n, rest |-> FALSE]

\* io.MultiReader(bytes.NewReader(b), reader)
MultiReader(b) == [peek |-> b, off |-> 0, N |-> Len(b), rest |-> TRUE]

MagicInit ==
    /\ aux \in [part : {"magic"},
                source : Streams(MaxStream),
                sourcePos : {0},
                buf : {[k \in 1 .. PeekLen |-> 0]},
                totalRead : {0},
                mpc : {"loop"},
                magicNumber : {<<>>},
                splicedStream : {NoStream},
                emitted : {<<>>},
                downEOF : {FALSE},
                compression : {""},
                filename : {<<>>},
                compressionType : {"none"}]
    /\ EngineOff

\* One iteration of the loop: reader.Read(buf[totalRead:]) returns n bytes and
\* an error that is nil, io.EOF (with the last bytes of the source or after
\* them) or another error.
MagicRead ==
    /\ mpc = "loop"
    /\ magicTotalRead < PeekLen
    /\ \E n \in 0 .. PeekLen, rerr \in {"nil", "EOF", "other"} :
          /\ n <= PeekLen - magicTotalRead
          /\ sourcePos + n <= Len(source)
          /\ rerr = "nil" => n > 0
          /\ rerr = "EOF" => sourcePos + n = Len(source)
          /\ LET data == SubSeq(source, sourcePos + 1, sourcePos + n)
                 b == BufAfterRead(magicBuf, magicTotalRead, data)
             IN  aux' = [aux EXCEPT
                    !.sourcePos = @ + n,
                    !.buf = b,
                    !.totalRead = IF rerr = "other" THEN @ ELSE @ + n,
                    !.mpc = CASE rerr = "other" -> "fatal"
                              [] rerr = "EOF" -> "returned"
                              [] OTHER -> "loop",
                    !.splicedStream =
                        IF rerr = "EOF"
                        THEN LimitReader(SubSeq(b, 1, magicTotalRead + n), magicTotalRead + n)
                        ELSE @]
    /\ UNCHANGED engineVars

\* The loop is over with four bytes read: the magic number and the spliced
\* stream are returned.
MagicReturn ==
    /\ mpc = "loop"
    /\ ~(magicTotalRead < PeekLen)
    /\ aux' = [aux EXCEPT
                 !.mpc = "returned",
                 !.magicNumber = EncodeToString(magicBuf),
                 !.splicedStream = MultiReader(magicBuf)]
    /\ UNCHANGED engineVars

\* compressionType := getCompressionType(filename, magicNumber)
GetCompressionType ==
    /\ mpc = "returned"
    /\ compressionType = "none"
    /\ \E call \in Invocations :
          aux' = [aux EXCEPT
                    !.compression = call[1],
                    !.filename = call[2],
                    !.compressionType = getCompressionType(call[1], call[2], magicNumber)]
    /\ UNCHANGED engineVars

\* One Read of the consumer on the returned stream: bytes of the peeked buffer
\* while it has any (within the limit), then bytes of the source where the
\* stream continues with it, then io.EOF.  The consumer is built once the
\* compression type is known.
DownRead ==
    /\ mpc = "returned"
    /\ compressionType # "none"
    /\ ~downEOF
    /\ LET st == splicedStream
           inPeek == IF Len(st.peek) < st.N THEN Len(st.peek) - st.off ELSE st.N - st.off
           inRest == IF st.rest THEN Len(source) - sourcePos ELSE 0
       IN  IF inPeek > 0
           THEN \E n \in 1 .. inPeek :
                   aux' = [aux EXCEPT
                      !.emitted = @ \o SubSeq(st.peek, st.off + 1, st.off + n),
                      !.splicedStream.off = @ + n]
           ELSE IF inRest > 0
           THEN \E n \in 1 .. inRest :
                   aux' = [aux EXCEPT
                      !.emitted = @ \o SubSeq(source, sourcePos + 1, sourcePos + n),
                      !.sourcePos = @ + n]
           ELSE aux' = [aux EXCEPT !.downEOF = TRUE]
    /\ UNCHANGED engineVars

MagicNext == MagicRead \/ MagicReturn \/ GetCompressionType \/ DownRead

MagicSpec == MagicInit /\ [][MagicNext]_vars

\* -------------------------------------------- claims on getMagicNumber
\* st is a prefix of the stream str.
PrefixOf(st, str) == Len(st) <= Len(str) /\ st = SubSeq(str, 1, Len(st))

\* What the returned stream still holds: the unread bytes of the peeked buffer
\* and, where the stream continues with the source, the source's unread bytes.
Remaining ==
    LET st == splicedStream
        n == IF Len(st.peek) < st.N THEN Len(st.peek) ELSE st.N
    IN  SubSeq(st.peek, st.off + 1, n)
        \o (IF st.rest THEN SubSeq(source, sourcePos + 1, Len(source)) ELSE <<>>)

\* C20: the stream getMagicNumber returns yields the bytes of the source
\* stream, all of them and in order: what the consumer has read and what the
\* stream still holds make up the source, so the consumer has read the whole
\* source when it meets the end; a source of fewer than four bytes comes back
\* as the bytes read and no more, with no magic number.
C20_PeekLossless ==
    (aux.part = "magic" /\ mpc = "returned") =>
        /\ emitted \o Remaining = source
        /\ PrefixOf(emitted, source)
        /\ downEOF => emitted = source
        /\ Len(source) < PeekLen =>
              /\ splicedStream.peek = source
              /\ ~splicedStream.rest
              /\ magicNumber = <<>>

\* C20 witness: a source of three bytes, shorter than the peek, has been
\* read to its end through the returned stream.
C20_Witness ==
    /\ aux.part = "magic"
    /\ Len(source) = 3
    /\ source[1] # source[2]
    /\ downEOF
    /\ emitted = source

\* The bytes the source stream starts with are exactly these.
StartsWith(bs) == Len(source) >= Len(bs) /\ SubSeq(source, 1, Len(bs)) = bs

\* The compression the claim selects for the source stream and the call.
Selected ==
    IF compression # ""
    THEN CASE compression = "tar" -> Tar
           [] compression = "gzip" -> Gzip
           [] OTHER -> Lz4
    ELSE IF StartsWith(<<31, 139>>) THEN Gzip
    ELSE IF StartsWith(<<4, 34, 77, 24>>) THEN Lz4
    ELSE IF HasSuffix(filename, <<"l", "z", "4">>) THEN Lz4
    ELSE IF HasSuffix(filename, <<"g", "z">>) THEN Gzip
    ELSE Tar

\* C21: an override always wins; without one gzip is selected whenever the
\* stream's first two bytes are 1f 8b, lz4 whenever its first four bytes are
\* 04 22 4d 18, and otherwise the file name's suffix decides (lz4, gz, tar),
\* raw tar being the default.
C21_Selection ==
    (aux.part = "magic" /\ compressionType # "none") => compressionType = Selected

\* ======================================= claims on writePartial, continued
\* Worker w is inside an iteration of its chunk loop: totalRead and
\* totalWritten are those of the chunk at CurChunkStart.
InChunk(w) ==
    w < numWorkers /\ pc[w] \in {"waitToken", "wloop", "waitSig", "partial", "handoff", "advance"}

\* The length of worker w's current chunk.
Expected(w) == Min(chunkSize, size - CurChunkStart[w])

\* Worker w's main goroutine starts an iteration of its chunk loop.
StartsChunk(w) == pc[w] = "loop" /\ pc'[w] = "waitToken"

\* The reader goroutine of worker w's current chunk handles a failure.
HandlesFailure(w) == chunkFails'[w] = chunkFails[w] + 1

C22_Step ==
    \A w \in Workers :
        StartsChunk(w) =>
            attemptNumber'[w] = IF UseMultipart THEN attemptNumber[w] ELSE 1

C22_Budget ==
    \A w \in Workers :
        (w < numWorkers /\ pc[w] \notin {"none", "entry"}) =>
            LET fails == IF UseMultipart THEN stripeFails[w] ELSE chunkFails[w]
            IN  \/ attemptNumber[w] = fails + 1
                \/ exit = EIO /\ attemptNumber[w] = fails /\ fails - 1 = RetryCount

\* C22: at the start of a chunk attemptNumber is set to 1 in single-range mode
\* and left as it is in multipart mode; so attemptNumber is one more than the
\* failures of the chunk in single-range mode and one more than the failures
\* of the whole stripe in multipart mode, and the failure that exits with EIO
\* is failure RetryCount + 1 of the chunk or, in multipart mode, of the stripe.
C22_AttemptReset == [][C22_Step]_vars /\ []C22_Budget

\* C22 witness: in multipart mode a worker has exited with EIO on a failure in a
\* later chunk of its stripe, failures of an earlier chunk counting.
C22_Witness ==
    \E w \in Workers :
        /\ UseMultipart
        /\ exit = EIO
        /\ CurChunkStart[w] > w * chunkSize
        /\ chunkFails[w] >= 1
        /\ stripeFails[w] > chunkFails[w]
        /\ stripeFails[w] - 1 = RetryCount

C23_Step ==
    \A w \in Workers :
        (InChunk(w) /\ InChunk(w)' /\ CurChunkStart'[w] = CurChunkStart[w]) =>
            /\ totalRead'[w] >= totalRead[w]
            /\ totalWritten'[w] >= totalWritten[w]
            /\ HandlesFailure(w) =>
                  /\ totalRead'[w] = totalRead[w]
                  /\ buf'[w] = buf[w]
                  /\ exit' = "none" =>
                        /\ stream'[w].open
                        /\ stream'[w].pos = CurChunkStart[w] + totalRead[w]
            /\ Len(out') >= Len(out) /\ SubSeq(out', 1, Len(out)) = out

C23_Buffer ==
    \A w \in Workers :
        InChunk(w) =>
            /\ \A i \in 1 .. totalRead[w] : buf[w][i] = Data(CurChunkStart[w] + i - 1)
            /\ HoldsToken(w) => Len(out) = CurChunkStart[w] + totalWritten[w]
            /\ \A i \in 1 .. Len(out) : out[i] = Data(i - 1)

\* C23: a failure on an unfinished chunk leaves totalRead and the buffer as they
\* are and re-requests from CurChunkStart + totalRead; the first totalRead
\* bytes of the buffer are always the object's bytes from CurChunkStart on, the
\* pipe holds every byte once (the token holder has written the object up to
\* CurChunkStart + totalWritten and nothing else), and within a chunk neither
\* totalRead nor totalWritten decreases.
C23_RetryKeepsProgress == [][C23_Step]_vars /\ []C23_Buffer

\* C23 witness: a worker that had written part of its chunk to the pipe and
\* read more of it handled a failure and re-requested the rest of the chunk.
C23_Witness ==
    \E w \in Workers :
        /\ InChunk(w)
        /\ exit = "none"
        /\ chunkFails[w] >= 1
        /\ rpc[w] = "top"
        /\ totalWritten[w] >= 1
        /\ totalRead[w] > totalWritten[w]
        /\ totalRead[w] < Expected(w)
        /\ stream[w].open
        /\ stream[w].pos = CurChunkStart[w] + totalRead[w]

\* C24: within a chunk 0 <= totalWritten <= totalRead <= min(C, S -
\* CurChunkStart): the writer emits only bytes the reader has stored, the
\* reader stores nothing past the chunk's length, and the part of the buffer
\* the reader fills (from totalRead on) and the part the writer emits (from
\* totalWritten up to totalRead) do not overlap.
C24_Bounds ==
    \A w \in Workers :
        InChunk(w) =>
            /\ 0 <= totalWritten[w]
            /\ totalWritten[w] <= totalRead[w]
            /\ totalRead[w] <= Expected(w)
            /\ Len(buf[w]) = chunkSize
            /\ {i \in 1 .. Len(buf[w]) : i > totalRead[w]}
                 \cap {i \in 1 .. Len(buf[w]) : totalWritten[w] < i /\ i <= totalRead[w]} = {}

\* C24 witness: a chunk of three bytes with one byte written, two read.
C24_Witness ==
    \E w \in Workers :
        /\ InChunk(w)
        /\ Expected(w) = 3
        /\ totalWritten[w] = 1
        /\ totalRead[w] = 2

C26_Step ==
    \A w \in Workers :
        /\ HandlesFailure(w) => totalRead[w] < Expected(w)
        /\ (rpc[w] = "check" /\ rpc'[w] # "check" /\ InChunk(w) /\ totalRead[w] = Expected(w)) =>
              /\ attemptNumber'[w] = attemptNumber[w]
              /\ chunkFails'[w] = chunkFails[w]
              /\ stripeFails'[w] = stripeFails[w]
              /\ exit' = exit
              /\ rpc'[w] = "post"
              /\ ~stream'[w].open

\* C26: a failure is handled only on an unfinished chunk; the step of the
\* reader goroutine after a Read that completed the chunk changes neither
\* attemptNumber nor the failure counts, does not re-request and does not exit,
\* whatever error the Read returned.
C26_ErrorAtEndIgnored == [][C26_Step]_vars

\* C26 witness: the Read that completed the chunk returned an error as well,
\* with the attempts used up.
C26_Witness ==
    \E w \in Workers :
        /\ InChunk(w)
        /\ exit = "none"
        /\ rpc[w] = "check"
        /\ err[w]
        /\ totalRead[w] = Expected(w)
        /\ totalRead[w] >= 1
        /\ attemptNumber[w] > RetryCount

\* The start of the chunk worker w has next: the one at hand or, once it has
\* handed the token on, the one after it.
NextStart(w) ==
    CASE pc[w] \in {"none", "entry"} -> w * chunkSize
      [] pc[w] = "advance" -> CurChunkStart[w] + numWorkers * chunkSize
      [] OTHER -> CurChunkStart[w]

\* C27: in the parallel path (C >= 1) a worker whose first chunk would start at or after the end of the object
\* leaves its loop at once: it issues no request, takes no token, writes
\* nothing.  A token lies only in the channel of a worker that has a chunk
\* left, so that with the pipe closed every channel is empty and no worker
\* waits for a token.
C27_NoTokenForIdle ==
    (InParallel /\ chunkSize >= 1) =>
        \A w \in Workers :
            /\ (w < numWorkers /\ w * chunkSize >= size) =>
                  /\ pc[w] \in {"entry", "loop", "done"}
                  /\ ~requested[w]
                  /\ chans[w] = 0
                  /\ \A i \in 1 .. Len(outBy) : outBy[i] # w
            /\ chans[w] > 0 => (w < numWorkers /\ pc[w] # "done" /\ NextStart(w) < size)
            /\ closeCount > 0 => (chans[w] = 0 /\ pc[w] # "waitToken")

\* C27 witness: the pipe is closed and a worker with no chunk has left its loop.
C27_Witness ==
    /\ InParallel
    /\ chunkSize >= 1
    /\ closeCount > 0
    /\ \E w \in Workers : w < numWorkers /\ w * chunkSize >= size /\ pc[w] = "done"

\* C28: the final send of a reader goroutine never blocks for ever: no reader
\* is at its final send with the slot of moreToWrite taken after the main
\* goroutine has left the chunk's write loop, the only receiver of the channel.
C28_FinalPostReturns ==
    \A w \in Workers :
        /\ ~(/\ rpc[w] = "post"
             /\ moreToWrite[w] = 1
             /\ pc[w] \in {"handoff", "advance", "loop", "done"})
        /\ \A i \in 1 .. Len(old[w]) : ~(old[w][i].rpc = "post" /\ old[w][i].sig = 1)

\* C29: the reader goroutine of a chunk has closed the chunk's stream before
\* its worker advances CurChunkStart and requests the next chunk: once the
\* worker has advanced, no reader goroutine of an earlier chunk has its
\* ChunkFinished test and its reader.Close() still to come.
C29_ClosedBeforeAdvance ==
    \A w \in Workers :
        /\ (pc[w] \in {"loop", "done"} /\ rpc[w] # "none") => rpc[w] \in {"post", "done"}
        /\ \A i \in 1 .. Len(old[w]) : old[w][i].rpc # "check"

\* C30: the tokens in the channels and the tokens held by workers number
\* exactly one from the initial send until the pipe is closed and none before
\* and after; every send of a token, the initial one included, finds the
\* slot of the channel empty, also with one worker, which sends to its own
\* channel.
C30_HandoffNeverBlocks ==
    /\ phase \in {"init", "full", "spawned"} => TokensBelow(MaxWorkers) + Cardinality(Holders) = 0
    /\ phase = "parallel" =>
          TokensBelow(MaxWorkers) + Cardinality(Holders) = IF closeCount > 0 THEN 0 ELSE 1
    /\ \A w \in Workers :
          /\ chans[w] \in {0, 1}
          /\ (w < numWorkers /\ pc[w] = "handoff" /\ CurChunkStart[w] + chunkSize < size) =>
                chans[(w + 1) % numWorkers] = 0

\* C30 witness: the only worker has sent the token to its own channel and
\* received it again for its next chunk.
C30_Witness ==
    /\ numWorkers = 1
    /\ phase = "parallel"
    /\ CurChunkStart[0] > 0
    /\ HoldsToken(0)
    /\ chans[0] = 0

\* ------------------------------- claims on the HTTP adapter, continued
\* throttled is set and never cleared.
C33_Step == (aux.part = "http" /\ throttled) => aux'.throttled

\* retryHttpRequest gave up after its last attempt.
GaveUp == aux.part = "http" /\ hexit \in {EBUSY, "fatal"}

\* C33: when retryHttpRequest has used up its attempts it exits with EBUSY if
\* one of the attempts of the call, the last or any other, got a 429 or a 503
\* response, and with log.Fatal if none did; throttled, once set, stays set.
C33_ThrottledIsSticky ==
    /\ [][C33_Step]_vars
    /\ [](GaveUp =>
            /\ throttled <=> \E i \in 1 .. Len(tried) : WasThrottled(i)
            /\ hexit = EBUSY <=> \E i \in 1 .. Len(tried) : WasThrottled(i)
            /\ hexit = "fatal" <=> \A i \in 1 .. Len(tried) : ~WasThrottled(i))

\* C33 witness: the first of three attempts was throttled, the other two failed
\* otherwise, and the process ended with EBUSY.
C33_Witness ==
    /\ aux.part = "http"
    /\ Len(tried) = 3
    /\ WasThrottled(1)
    /\ WasTransient(2) /\ tried[2].err
    /\ WasTransient(3) /\ ~tried[3].err
    /\ hexit = EBUSY

\* ----------------------------------- claims on ExtractTar, continued
\* Entries i < j of the archive are regular files of the same stripped path, j
\* is the last entry of that path, and the archive holds no hard link.
SamePathPair(i, j) ==
    /\ i < j
    /\ archive[i].Typeflag = "reg" /\ archive[j].Typeflag = "reg"
    /\ WriterPath(i) # <<>>
    /\ WriterPath(i) = WriterPath(j)
    /\ \A k \in 1 .. Len(archive) :
          /\ archive[k].Typeflag # "link"
          /\ k > j => WriterPath(k) # WriterPath(j)

\* C31 as claimed: once ExtractTar has returned, with at least one write
\* worker, the file of a path that two regular-file entries share (no hard link
\* in the archive) holds the content of the later entry.
C31_LaterEntryWins ==
    (aux.part = "tar" /\ tpc = "returned" /\ texit = "none" /\ writeWorkers >= 1) =>
        \A i, j \in 1 .. Len(archive) :
            SamePathPair(i, j) =>
                /\ WriterPath(j) \in fs
                /\ contents[inode[WriterPath(j)]] = j

\* The writer goroutines that were started and have not called wg.Done().
Started == {i \in 1 .. MaxEntries : Outstanding(i)}

\* ExtractTar has returned or the process has exited (log.Fatal, panic).
TarEnded == tpc = "returned" \/ texit # "none"

\* C32: the free tokens and the tokens of the writer goroutines that have not
\* returned theirs are *writeWorkers in number at every state, and wg counts
\* the writers that have not signalled completion; every writer goroutine
\* started returns its token and calls wg.Done(); with at least one write
\* worker the main loop leaves every token acquisition and every hard-link
\* barrier and ExtractTar comes to its end (unless the process exits first).
C32_TokensConserved ==
    /\ [](aux.part = "tar" =>
            /\ openFileTokens \in 0 .. writeWorkers
            /\ openFileTokens + Cardinality(HoldingToken) = writeWorkers
            /\ wg = Cardinality(Started))
    /\ \A i \in 1 .. MaxEntries :
          (aux.part = "tar" /\ writers[i] # "none")
              ~> (writers[i] = "finished" \/ texit # "none")
    /\ (aux.part = "tar" /\ writeWorkers >= 1 /\ tpc \in {"acquire", "wgWait"})
          ~> (tpc \notin {"acquire", "wgWait"})
    /\ (aux.part = "tar" /\ writeWorkers >= 1) ~> TarEnded

\* C32 witness: with one write worker two regular files were written, the
\* second of them started with the token that the writer of the first had
\* returned, and ExtractTar has returned with the token back.
C32_Witness ==
    /\ aux.part = "tar"
    /\ writeWorkers = 1
    /\ Len(archive) = 2
    /\ archive[1].Typeflag = "reg" /\ archive[2].Typeflag = "reg"
    /\ writers[1] = "finished" /\ writers[2] = "finished"
    /\ tpc = "returned"
    /\ wg = 0
    /\ openFileTokens = 1

====
